---- MODULE Spec2Model ----
(***************************************************************************)
(* URL shortener: the code generation and validation engine of             *)
(* src/utils.py (URLShortener, URLValidator, CodeValidator,                *)
(* create_short_url) and the routes of src/app.py that call it against the *)
(* urls table of src/models.py.                                            *)
(*                                                                         *)
(* A Python str is a sequence of one-character strings, so that strip,     *)
(* startswith, lower, slicing, urlparse and the hex digest are computed    *)
(* character by character.  Python's None is the value None below.         *)
(***************************************************************************)
EXTENDS Integers, Sequences, FiniteSets, TLC

(***************************************************************************)
(* Characters.  AsciiChars lists the printable ASCII characters in code    *)
(* order starting at 32, so Ord(c) is the byte str.encode() produces.      *)
(* The double quote, the backslash and the backquote are never part of a   *)
(* model string; their places are held by names.                           *)
(***************************************************************************)
AsciiChars ==
   <<
      " ", "!", "<dquote>", "#", "$", "%", "&", "'", "(", ")", "*", "+", ",", "-", ".", "/",
      "0", "1", "2", "3", "4", "5", "6", "7", "8", "9", ":", ";", "<", "=", ">", "?",
      "@", "A", "B", "C", "D", "E", "F", "G", "H", "I", "J", "K", "L", "M", "N", "O",
      "P", "Q", "R", "S", "T", "U", "V", "W", "X", "Y", "Z", "[", "<backslash>", "]", "^", "_",
      "<backtick>", "a", "b", "c", "d", "e", "f", "g", "h", "i", "j", "k", "l", "m", "n", "o",
      "p", "q", "r", "s", "t", "u", "v", "w", "x", "y", "z", "{", "|", "}", "~"
   >>

Ord(c) == 31 + (CHOOSE i \in 1..Len(AsciiChars) : AsciiChars[i] = c)

Chr(n) == AsciiChars[n - 31]

IsUpper(c) == c \in {AsciiChars[i] : i \in 34..59}

IsLowerLetter(c) == c \in {AsciiChars[i] : i \in 66..91}

IsDigit(c) == c \in {AsciiChars[i] : i \in 17..26}

IsAlpha(c) == IsUpper(c) \/ IsLowerLetter(c)

\* a local variable: Op applied to the value of v, which is computed once
Let(v, Op(_)) == CHOOSE r \in {Op(x) : x \in {v}} : TRUE

\* str.lower() on one character, then on a string
LowerChar(c) == IF IsUpper(c) THEN Chr(Ord(c) + 32) ELSE c

Lower(s) == Let(s, LAMBDA t : [i \in 1..Len(t) |-> LowerChar(t[i])])

\* Python's None; a value that is no string of characters
None == <<"<None>">>

\* Python truthiness of an optional str: None and '' are falsy
Truthy(x) == x # None /\ x # <<>>

(***************************************************************************)
(* str helpers                                                             *)
(***************************************************************************)
\* s[a:b] for 0 <= a, with Python's clamping (0-based, b exclusive)
Slice(s, a, b) ==
   LET hi == IF b > Len(s) THEN Len(s) ELSE b
   IN  IF a >= hi THEN <<>> ELSE SubSeq(s, a + 1, hi)

StartsWith(s, p) == Len(s) >= Len(p) /\ SubSeq(s, 1, Len(p)) = p

EndsWith(s, p) == Len(s) >= Len(p) /\ SubSeq(s, Len(s) - Len(p) + 1, Len(s)) = p

Contains(s, c) == \E i \in 1..Len(s) : s[i] = c

\* s.find(c, start): 0-based index of the first c at or after start, or -1
Find(s, c, start) ==
   Let(s, LAMBDA t :
      IF \E i \in (start + 1)..Len(t) : t[i] = c
      THEN (CHOOSE i \in (start + 1)..Len(t) :
               t[i] = c /\ \A j \in (start + 1)..(i - 1) : t[j] # c) - 1
      ELSE -1)

Whitespace == {" ", "\t", "\n", "\r"}

\* str.strip()
Strip(s) ==
   IF \A i \in 1..Len(s) : s[i] \in Whitespace THEN <<>>
   ELSE LET a == CHOOSE i \in 1..Len(s) :
                    s[i] \notin Whitespace /\ \A j \in 1..(i - 1) : s[j] \in Whitespace
            b == CHOOSE i \in 1..Len(s) :
                    s[i] \notin Whitespace /\ \A j \in (i + 1)..Len(s) : s[j] \in Whitespace
        IN  SubSeq(s, a, b)

\* the set of items of a sequence
Range(s) == {s[i] : i \in 1..Len(s)}

(***************************************************************************)
(* hashlib.sha256(data).hexdigest(): FIPS 180-4 SHA-256.  A 32-bit word is *)
(* a pair <<high 16 bits, low 16 bits>>.                                   *)
(***************************************************************************)
ShaK ==
   <<
      <<17034,12184>>, <<28983,17553>>, <<46528,64463>>, <<59829,56229>>,
      <<14678,49755>>, <<23025,4593>>, <<37439,33444>>, <<43804,24277>>,
      <<55303,43672>>, <<4739,23297>>, <<9265,34238>>, <<21772,32195>>,
      <<29374,23924>>, <<32990,45566>>, <<39900,1703>>, <<49563,61812>>,
      <<58523,27073>>, <<61374,18310>>, <<4033,40390>>, <<9228,41420>>,
      <<11753,11375>>, <<19060,33962>>, <<23728,43484>>, <<30457,35034>>,
      <<38974,20818>>, <<43057,50797>>, <<45059,10184>>, <<48985,32711>>,
      <<50912,3059>>, <<54695,37191>>, <<1738,25425>>, <<5161,10599>>,
      <<10167,2693>>, <<11803,8504>>, <<19756,28156>>, <<21304,3347>>,
      <<25866,29524>>, <<30314,2747>>, <<33218,51502>>, <<37490,11397>>,
      <<41663,59553>>, <<43034,26187>>, <<49739,35696>>, <<51052,20899>>,
      <<53650,59417>>, <<54937,1572>>, <<62478,13701>>, <<4202,41072>>,
      <<6564,49430>>, <<7735,27656>>, <<10056,30540>>, <<13488,48309>>,
      <<14620,3251>>, <<20184,43594>>, <<23452,51791>>, <<26670,28659>>,
      <<29839,33518>>, <<30885,25455>>, <<33992,30740>>, <<36039,520>>,
      <<37054,65530>>, <<42064,27883>>, <<48889,41975>>, <<50801,30962>>
   >>

ShaH0 ==
   <<
      <<27145,58983>>, <<47975,44677>>, <<15470,62322>>, <<42319,62778>>,
      <<20750,21119>>, <<39685,26764>>, <<8067,55723>>, <<23520,52505>>
   >>

RECURSIVE Xor3Bits(_, _, _, _)
Xor3Bits(a, b, c, n) ==
   IF n = 0 THEN 0
   ELSE ((a + b + c) % 2) + 2 * Xor3Bits(a \div 2, b \div 2, c \div 2, n - 1)

RECURSIVE ChBits(_, _, _, _)
ChBits(e, f, g, n) ==
   IF n = 0 THEN 0
   ELSE (IF e % 2 = 1 THEN f % 2 ELSE g % 2)
        + 2 * ChBits(e \div 2, f \div 2, g \div 2, n - 1)

RECURSIVE MajBits(_, _, _, _)
MajBits(a, b, c, n) ==
   IF n = 0 THEN 0
   ELSE (IF (a % 2) + (b % 2) + (c % 2) >= 2 THEN 1 ELSE 0)
        + 2 * MajBits(a \div 2, b \div 2, c \div 2, n - 1)

Xor3(x, y, z) == <<Xor3Bits(x[1], y[1], z[1], 16), Xor3Bits(x[2], y[2], z[2], 16)>>

Ch(x, y, z) == <<ChBits(x[1], y[1], z[1], 16), ChBits(x[2], y[2], z[2], 16)>>

Maj(x, y, z) == <<MajBits(x[1], y[1], z[1], 16), MajBits(x[2], y[2], z[2], 16)>>

RotR(w, n) ==
   LET x == IF n >= 16 THEN <<w[2], w[1]>> ELSE w
       k == IF n >= 16 THEN n - 16 ELSE n
   IN  << (x[1] \div 2^k) + (x[2] % 2^k) * 2^(16 - k),
          (x[2] \div 2^k) + (x[1] % 2^k) * 2^(16 - k) >>

ShR(w, n) ==
   IF n >= 16 THEN <<0, w[1] \div 2^(n - 16)>>
   ELSE << w[1] \div 2^n, (w[2] \div 2^n) + (w[1] % 2^n) * 2^(16 - n) >>

Add32(x, y) ==
   LET lo == x[2] + y[2]
   IN  << (x[1] + y[1] + (lo \div 65536)) % 65536, lo % 65536 >>

BigSigma0(x) == Xor3(RotR(x, 2), RotR(x, 13), RotR(x, 22))

BigSigma1(x) == Xor3(RotR(x, 6), RotR(x, 11), RotR(x, 25))

SmallSigma0(x) == Xor3(RotR(x, 7), RotR(x, 18), ShR(x, 3))

SmallSigma1(x) == Xor3(RotR(x, 17), RotR(x, 19), ShR(x, 10))

\* the message bytes, the 0x80 byte, zero padding and the 64-bit bit length
ShaPad(s) ==
   LET n == Len(s)
       z == (55 - n) % 64
       bits == 8 * n
   IN  [i \in 1..n |-> Ord(s[i])] \o <<128>> \o [i \in 1..z |-> 0]
       \o <<0, 0, 0, 0, (bits \div 16777216) % 256, (bits \div 65536) % 256,
            (bits \div 256) % 256, bits % 256>>

BlockWords(bytes, b) ==
   [t \in 1..16 |->
      LET o == 64 * b + 4 * (t - 1)
      IN  <<bytes[o + 1] * 256 + bytes[o + 2], bytes[o + 3] * 256 + bytes[o + 4]>>]

RECURSIVE Schedule(_)
Schedule(w) ==
   IF Len(w) = 64 THEN w
   ELSE LET t == Len(w) + 1
        IN  Schedule(Append(w,
               Add32(Add32(SmallSigma1(w[t - 2]), w[t - 7]),
                     Add32(SmallSigma0(w[t - 15]), w[t - 16]))))

Round(v, k, w) ==
   LET t1 == Add32(Add32(Add32(v[8], BigSigma1(v[5])), Add32(Ch(v[5], v[6], v[7]), k)), w)
       t2 == Add32(BigSigma0(v[1]), Maj(v[1], v[2], v[3]))
   IN  <<Add32(t1, t2), v[1], v[2], v[3], Add32(v[4], t1), v[5], v[6], v[7]>>

\* vs holds the working variables before round Len(vs)
RECURSIVE Rounds(_, _)
Rounds(vs, w) ==
   IF Len(vs) = 65 THEN vs[65]
   ELSE Rounds(Append(vs, Round(vs[Len(vs)], ShaK[Len(vs)], w[Len(vs)])), w)

Compress(h, words) ==
   LET v == Rounds(<<h>>, Schedule(words))
   IN  [i \in 1..8 |-> Add32(h[i], v[i])]

RECURSIVE ShaBlocks(_, _, _)
ShaBlocks(h, bytes, b) ==
   IF 64 * b >= Len(bytes) THEN h
   ELSE ShaBlocks(Compress(h, BlockWords(bytes, b)), bytes, b + 1)

HexDigits == <<"0", "1", "2", "3", "4", "5", "6", "7", "8", "9", "a", "b", "c", "d", "e", "f">>

HexOf16(x) ==
   <<HexDigits[(x \div 4096) + 1], HexDigits[((x \div 256) % 16) + 1],
     HexDigits[((x \div 16) % 16) + 1], HexDigits[(x % 16) + 1]>>

\* the 64 hex characters of the digest of the bytes of s
Sha256Hex(s) ==
   LET h == ShaBlocks(ShaH0, ShaPad(s), 0)
       RECURSIVE Cat(_)
       Cat(i) == IF i > 8 THEN <<>> ELSE HexOf16(h[i][1]) \o HexOf16(h[i][2]) \o Cat(i + 1)
   IN  Cat(1)

\* int(h, 16) for a string of hex digits
RECURSIVE IntBase16(_)
IntBase16(h) ==
   Let(h, LAMBDA t :
      IF t = <<>> THEN 0
      ELSE 16 * IntBase16(SubSeq(t, 1, Len(t) - 1))
           + ((CHOOSE i \in 1..16 : HexDigits[i] = t[Len(t)]) - 1))

(***************************************************************************)
(* urllib.parse.urlparse and urlunparse                                    *)
(***************************************************************************)
SchemeChars ==
   {AsciiChars[i] : i \in 34..59} \cup {AsciiChars[i] : i \in 66..91}
   \cup {AsciiChars[i] : i \in 17..26} \cup {"+", "-", "."}

\* urllib.parse.uses_params and uses_netloc, as far as model schemes go
UsesParams == {<<>>, <<"f", "t", "p">>, <<"h", "t", "t", "p">>, <<"h", "t", "t", "p", "s">>}

UsesNetloc == {<<>>, <<"f", "t", "p">>, <<"h", "t", "t", "p">>, <<"h", "t", "t", "p", "s">>}

\* 0-based index where the netloc ends: the first of / ? # at or after start
NetlocEnd(s, start) ==
   LET hits == {Find(s, c, start) : c \in {"/", "?", "#"}} \ {-1}
   IN  IF hits = {} THEN Len(s)
       ELSE CHOOSE d \in hits : \A e \in hits : d <= e

\* s.rfind(c): 0-based index of the last c, or -1
RFind(s, c) ==
   Let(s, LAMBDA t :
      IF Contains(t, c)
      THEN (CHOOSE i \in 1..Len(t) : t[i] = c /\ \A j \in (i + 1)..Len(t) : t[j] # c) - 1
      ELSE -1)

\* urlparse(url): ok = FALSE stands for the ValueError of an unbalanced
\* bracket in the netloc ("Invalid IPv6 URL")
urlparse(url_arg) ==
   Let(url_arg, LAMBDA url :
   Let(Find(url, ":", 0), LAMBDA i :
   Let(/\ i > 0
       /\ IsAlpha(url[1])
       /\ \A j \in 1..i : url[j] \in SchemeChars, LAMBDA hasScheme :
   Let(IF hasScheme THEN Lower(Slice(url, 0, i)) ELSE <<>>, LAMBDA scheme :
   Let(IF hasScheme THEN Slice(url, i + 1, Len(url)) ELSE url, LAMBDA r1 :
   Let(Slice(r1, 0, 2) = <<"/", "/">>, LAMBDA hasNetloc :
   Let(NetlocEnd(r1, 2), LAMBDA d :
   Let(IF hasNetloc THEN Slice(r1, 2, d) ELSE <<>>, LAMBDA netloc :
   Let(IF hasNetloc THEN Slice(r1, d, Len(r1)) ELSE r1, LAMBDA r2 :
   Let(Find(r2, "#", 0), LAMBDA h :
   Let(IF h >= 0 THEN Slice(r2, h + 1, Len(r2)) ELSE <<>>, LAMBDA fragment :
   Let(IF h >= 0 THEN Slice(r2, 0, h) ELSE r2, LAMBDA r3 :
   Let(Find(r3, "?", 0), LAMBDA q :
   Let(IF q >= 0 THEN Slice(r3, q + 1, Len(r3)) ELSE <<>>, LAMBDA query :
   Let(IF q >= 0 THEN Slice(r3, 0, q) ELSE r3, LAMBDA r4 :
   Let(RFind(r4, "/"), LAMBDA slash :
   Let(IF slash >= 0 THEN Find(r4, ";", slash) ELSE Find(r4, ";", 0), LAMBDA semi :
   Let(scheme \in UsesParams /\ semi >= 0, LAMBDA split :
      [ok |-> ~(Contains(netloc, "[") /\ ~Contains(netloc, "]"))
              /\ ~(Contains(netloc, "]") /\ ~Contains(netloc, "[")),
       scheme |-> scheme,
       netloc |-> netloc,
       path |-> IF split THEN Slice(r4, 0, semi) ELSE r4,
       params |-> IF split THEN Slice(r4, semi + 1, Len(r4)) ELSE <<>>,
       query |-> query,
       fragment |-> fragment]))))))))))))))))))

urlunparse(scheme, netloc, path, params, query, fragment) ==
   Let(IF params # <<>> THEN path \o <<";">> \o params ELSE path, LAMBDA u0 :
   Let(IF netloc # <<>>
          \/ (scheme # <<>> /\ scheme \in UsesNetloc /\ Slice(u0, 0, 2) # <<"/", "/">>)
       THEN <<"/", "/">> \o netloc
            \o (IF u0 # <<>> /\ u0[1] # "/" THEN <<"/">> \o u0 ELSE u0)
       ELSE u0, LAMBDA u1 :
   Let(IF scheme # <<>> THEN scheme \o <<":">> \o u1 ELSE u1, LAMBDA u2 :
   Let(IF query # <<>> THEN u2 \o <<"?">> \o query ELSE u2, LAMBDA u3 :
      IF fragment # <<>> THEN u3 \o <<"#">> \o fragment ELSE u3))))

\* s.split(sep) for a one-character separator
RECURSIVE Split(_, _)
Split(s, sep) ==
   Let(s, LAMBDA t :
   Let(Find(t, sep, 0), LAMBDA i :
      IF i < 0 THEN <<t>>
      ELSE <<Slice(t, 0, i)>> \o Split(Slice(t, i + 1, Len(t)), sep)))

\* int(s) for a string of decimal digits
RECURSIVE IntBase10(_)
IntBase10(s) ==
   Let(s, LAMBDA t :
      IF t = <<>> THEN 0
      ELSE 10 * IntBase10(SubSeq(t, 1, Len(t) - 1)) + (Ord(t[Len(t)]) - 48))

(***************************************************************************)
(* The scheme prefixes and the string constants of the source              *)
(***************************************************************************)
S_http == <<"h", "t", "t", "p">>

S_https == <<"h", "t", "t", "p", "s">>

S_ftp == <<"f", "t", "p">>

S_ftps == <<"f", "t", "p", "s">>

SchemeSep == <<":", "/", "/">>

Port80 == <<":", "8", "0">>

Port443 == <<":", "4", "4", "3">>

(***************************************************************************)
(* URLValidator                                                            *)
(***************************************************************************)
ALLOWED_SCHEMES == {S_http, S_https, S_ftp, S_ftps}

BLOCKED_DOMAINS ==
   { <<"l", "o", "c", "a", "l", "h", "o", "s", "t">>,
     <<"1", "2", "7", ".", "0", ".", "0", ".", "1">>,
     <<"0", ".", "0", ".", "0", ".", "0">> }

SUSPICIOUS_TLDS ==
   { <<"t", "k">>, <<"m", "l">>, <<"g", "a">>, <<"c", "f">>, <<"b", "i", "t">>, <<"l", "y">> }

\* re.match(r'^(\d{1,3}\.){3}\d{1,3}$', domain)
MatchesIPv4Pattern(domain) ==
   Let(Split(domain, "."), LAMBDA parts :
      /\ Len(parts) = 4
      /\ \A k \in 1..4 :
            /\ Len(parts[k]) \in 1..3
            /\ \A j \in 1..Len(parts[k]) : IsDigit(parts[k][j]))

_is_local_ip(domain) ==
   IF MatchesIPv4Pattern(domain)
   THEN Let(Split(domain, "."), LAMBDA parts :
           \/ parts[1] = <<"1", "0">>
           \/ (parts[1] = <<"1", "7", "2">>
               /\ 16 <= IntBase10(parts[2]) /\ IntBase10(parts[2]) <= 31)
           \/ (parts[1] = <<"1", "9", "2">> /\ parts[2] = <<"1", "6", "8">>)
           \/ parts[1] = <<"1", "2", "7">>)
   ELSE FALSE

\* normalize_url with 'http://' put in front whatever the string starts with
normalize_url_always_prefixed(url_arg) ==
   Let(url_arg, LAMBDA url :
   IF ~Truthy(url) THEN url
   ELSE Let(Strip(url), LAMBDA u1 :
        Let(S_http \o SchemeSep \o u1, LAMBDA u2 :
        Let(urlparse(u2), LAMBDA parsed :
        Let(Lower(parsed.netloc), LAMBDA n0 :
        Let(IF EndsWith(n0, Port80) /\ parsed.scheme = S_http
            THEN Slice(n0, 0, Len(n0) - 3)
            ELSE IF EndsWith(n0, Port443) /\ parsed.scheme = S_https
            THEN Slice(n0, 0, Len(n0) - 4)
            ELSE n0, LAMBDA netloc :
           IF parsed.ok
           THEN urlunparse(parsed.scheme, netloc, parsed.path, parsed.params,
                           parsed.query, parsed.fragment)
           ELSE u2))))))

\* normalize_url(url); the except branch returns the local url, which by
\* then is the stripped and prefixed string
normalize_url(url_arg) ==
   Let(url_arg, LAMBDA url :
   IF ~Truthy(url) THEN url
   ELSE Let(Strip(url), LAMBDA u1 :
        Let(IF \/ StartsWith(u1, S_http \o SchemeSep)
               \/ StartsWith(u1, S_https \o SchemeSep)
               \/ StartsWith(u1, S_ftp \o SchemeSep)
               \/ StartsWith(u1, S_ftps \o SchemeSep)
            THEN u1
            ELSE S_http \o SchemeSep \o u1, LAMBDA u2 :
        Let(urlparse(u2), LAMBDA parsed :
        Let(Lower(parsed.netloc), LAMBDA n0 :
        Let(IF EndsWith(n0, Port80) /\ parsed.scheme = S_http
            THEN Slice(n0, 0, Len(n0) - 3)
            ELSE IF EndsWith(n0, Port443) /\ parsed.scheme = S_https
            THEN Slice(n0, 0, Len(n0) - 4)
            ELSE n0, LAMBDA netloc :
           IF parsed.ok
           THEN urlunparse(parsed.scheme, netloc, parsed.path, parsed.params,
                           parsed.query, parsed.fragment)
           ELSE u2))))))

(***************************************************************************)
(* validators.url(url) of the validators package: the URL grammar check.   *)
(* It accepts scheme://[userinfo@]host[:port][/path][?query][#fragment]    *)
(* without whitespace, the scheme matched ignoring case, where host is a   *)
(* dotted domain name ending in an alphabetic label of two or more         *)
(* letters, or a dotted quad with octets up to 255.                        *)
(***************************************************************************)
ValidatorsSchemes == {S_http, S_https, S_ftp}

IsHostLabel(l) ==
   /\ l # <<>>
   /\ \A j \in 1..Len(l) : IsAlpha(l[j]) \/ IsDigit(l[j]) \/ l[j] = "-"
   /\ l[1] # "-" /\ l[Len(l)] # "-"

IsDomainName(h) ==
   Let(Split(h, "."), LAMBDA parts :
   Let(parts[Len(parts)], LAMBDA tld :
      /\ Len(parts) >= 2
      /\ \A k \in 1..Len(parts) : IsHostLabel(parts[k])
      /\ Len(tld) >= 2
      /\ \A j \in 1..Len(tld) : IsAlpha(tld[j])))

IsDottedQuad(h) ==
   /\ MatchesIPv4Pattern(h)
   /\ Let(Split(h, "."), LAMBDA parts :
         \A k \in 1..4 :
            /\ IntBase10(parts[k]) <= 255
            /\ Len(parts[k]) > 1 => parts[k][1] # "0")

ValidatorsUrl(url_arg) ==
   Let(url_arg, LAMBDA url :
   Let(Find(url, ":", 0), LAMBDA i :
   Let(urlparse(url), LAMBDA parsed :
   Let(RFind(parsed.netloc, "@"), LAMBDA at :
   Let(Slice(parsed.netloc, at + 1, Len(parsed.netloc)), LAMBDA hostport :
   Let(Find(hostport, ":", 0), LAMBDA c :
   Let(IF c >= 0 THEN Slice(hostport, 0, c) ELSE hostport, LAMBDA host :
   Let(IF c >= 0 THEN Slice(hostport, c + 1, Len(hostport)) ELSE <<>>, LAMBDA port :
      /\ \A j \in 1..Len(url) : url[j] \notin Whitespace
      /\ parsed.ok
      /\ parsed.scheme \in ValidatorsSchemes
      /\ Slice(url, i, i + 3) = SchemeSep
      /\ (IsDomainName(host) \/ IsDottedQuad(host))
      /\ c >= 0 => (Len(port) \in 2..5 /\ \A j \in 1..Len(port) : IsDigit(port[j]))))))))))

\* is_valid_url with the lower length bound one off
is_valid_url_short_bound_off(url_arg, strict) ==
   Let(url_arg, LAMBDA url :
   IF ~Truthy(url) THEN <<FALSE, "URL bos olamaz">>
   ELSE IF Len(url) > 2048 THEN <<FALSE, "URL cok uzun (max 2048 karakter)">>
   ELSE IF Len(url) <= 10 THEN <<FALSE, "URL cok kisa">>
   ELSE IF ~ValidatorsUrl(url) THEN <<FALSE, "Gecersiz URL formati">>
   ELSE Let(urlparse(url), LAMBDA parsed :
        Let(Split(Lower(parsed.netloc), ":")[1], LAMBDA domain :
        Let(Split(domain, "."), LAMBDA domain_parts :
           IF ~parsed.ok THEN <<FALSE, "URL parse edilemedi">>
           ELSE IF Lower(parsed.scheme) \notin ALLOWED_SCHEMES
           THEN <<FALSE, "Desteklenmeyen protokol: {parsed.scheme}">>
           ELSE IF parsed.netloc = <<>> THEN <<FALSE, "Domain belirtilmemis">>
           ELSE IF domain \in BLOCKED_DOMAINS THEN <<FALSE, "Yasakli domain: {domain}">>
           ELSE IF strict /\ Len(domain_parts) >= 2
                   /\ domain_parts[Len(domain_parts)] \in SUSPICIOUS_TLDS
           THEN <<FALSE, "Supheli TLD: {tld}">>
           ELSE IF strict /\ _is_local_ip(domain)
           THEN <<FALSE, "Yerel IP adresleri desteklenmiyor">>
           ELSE <<TRUE, "">>))))

\* is_valid_url(url, strict) -> (valid, message)
is_valid_url(url_arg, strict) ==
   Let(url_arg, LAMBDA url :
   IF ~Truthy(url) THEN <<FALSE, "URL bos olamaz">>
   ELSE IF Len(url) > 2048 THEN <<FALSE, "URL cok uzun (max 2048 karakter)">>
   ELSE IF Len(url) < 10 THEN <<FALSE, "URL cok kisa">>
   ELSE IF ~ValidatorsUrl(url) THEN <<FALSE, "Gecersiz URL formati">>
   ELSE Let(urlparse(url), LAMBDA parsed :
        Let(Split(Lower(parsed.netloc), ":")[1], LAMBDA domain :
        Let(Split(domain, "."), LAMBDA domain_parts :
           IF ~parsed.ok THEN <<FALSE, "URL parse edilemedi">>
           ELSE IF Lower(parsed.scheme) \notin ALLOWED_SCHEMES
           THEN <<FALSE, "Desteklenmeyen protokol: {parsed.scheme}">>
           ELSE IF parsed.netloc = <<>> THEN <<FALSE, "Domain belirtilmemis">>
           ELSE IF domain \in BLOCKED_DOMAINS THEN <<FALSE, "Yasakli domain: {domain}">>
           ELSE IF strict /\ Len(domain_parts) >= 2
                   /\ domain_parts[Len(domain_parts)] \in SUSPICIOUS_TLDS
           THEN <<FALSE, "Supheli TLD: {tld}">>
           ELSE IF strict /\ _is_local_ip(domain)
           THEN <<FALSE, "Yerel IP adresleri desteklenmiyor">>
           ELSE <<TRUE, "">>))))

(***************************************************************************)
(* The strings the callers pass.  A URL of UrlParts is                     *)
(* scheme://host[:port][tail]; OddUrls are the strings of other shapes.    *)
(***************************************************************************)
S_HTTP == <<"H", "T", "T", "P">>

Host_a == <<"a", ".", "c", "o">>

Host_A == <<"A", ".", "c", "o">>

Port81 == <<":", "8", "1">>

Tail_p == <<"/", "p", "?", "q", "=", "1", "#", "f">>

UrlParts ==
   [scheme : {S_http, S_https, S_HTTP},
    host : {Host_a, Host_A},
    port : {<<>>, Port80, Port443},
    tail : {<<>>, Tail_p}]

BuildUrl(r) == r.scheme \o SchemeSep \o r.host \o r.port \o r.tail

Url_ftp == <<"f", "t", "p", ":", "/", "/", "a", ".", "c", "o">>

Url_tk == <<"h", "t", "t", "p", ":", "/", "/", "x", ".", "t", "k">>

Url_private == <<"h", "t", "t", "p", ":", "/", "/", "1", "0", ".", "0", ".", "0", ".", "1">>

Url_loopback == <<"h", "t", "t", "p", ":", "/", "/", "1", "2", "7", ".", "0", ".", "0", ".", "1">>

Url_words == <<"n", "o", "t", " ", "a", " ", "u", "r", "l">>

Url_noscheme == <<"w", "w", "w", ".", "a", ".", "c", "o", "/", "p", "q">>

Url_spaces == <<" ", "h", "t", "t", "p", ":", "/", "/", "a", ".", "c", "o", " ">>

Url_bracket == <<"h", "t", "t", "p", ":", "/", "/", "[", "a", ".", "c", "o">>

Url_twoports == <<"h", "t", "t", "p", ":", "/", "/", "a", ".", "c", "o", ":", "8", "0", ":", "8", "0">>

Url_port81 == <<"h", "t", "t", "p", ":", "/", "/", "a", ".", "c", "o", ":", "8", "1", "/", "p">>

OddUrls ==
   { <<>>, Url_ftp, Url_tk, Url_private, Url_loopback, Url_words, Url_noscheme,
     Url_spaces, Url_bracket, Url_twoports, Url_port81 }

UrlInputs == {BuildUrl(r) : r \in UrlParts} \cup OddUrls

Code_mylink == <<"m", "y", "-", "l", "i", "n", "k">>

Code_admin == <<"a", "d", "m", "i", "n">>

Code_Admin == <<"A", "d", "m", "i", "n">>

Code_short == <<"a", "b">>

Code_digit == <<"9", "l", "i", "v", "e", "s">>

Code_run == <<"a", "a", "a", "a", "b">>

Code_bang == <<"m", "y", "!", "l", "i", "n", "k">>

Code_long == [i \in 1..21 |-> "x"]

\* custom_code arguments: None, '', one acceptable code and one code per
\* rejection rule of is_valid_custom_code
CustomInputs ==
   { None, <<>>, Code_mylink, Code_admin, Code_Admin, Code_short, Code_digit,
     Code_run, Code_bang, Code_long }

(***************************************************************************)
(* CodeValidator                                                           *)
(***************************************************************************)
RESERVED_WORDS ==
   { <<"a", "p", "i">>,
     <<"a", "d", "m", "i", "n">>,
     <<"w", "w", "w">>,
     <<"m", "a", "i", "l">>,
     <<"f", "t", "p">>,
     <<"b", "l", "o", "g">>,
     <<"s", "h", "o", "p">>,
     <<"l", "o", "g", "i", "n">>,
     <<"r", "e", "g", "i", "s", "t", "e", "r">>,
     <<"s", "i", "g", "n", "u", "p">>,
     <<"s", "i", "g", "n", "i", "n">>,
     <<"l", "o", "g", "o", "u", "t">>,
     <<"d", "a", "s", "h", "b", "o", "a", "r", "d">>,
     <<"p", "r", "o", "f", "i", "l", "e">>,
     <<"s", "e", "t", "t", "i", "n", "g", "s">>,
     <<"c", "o", "n", "f", "i", "g">>,
     <<"a", "b", "o", "u", "t">>,
     <<"c", "o", "n", "t", "a", "c", "t">>,
     <<"h", "e", "l", "p">>,
     <<"s", "u", "p", "p", "o", "r", "t">>,
     <<"t", "e", "r", "m", "s">>,
     <<"p", "r", "i", "v", "a", "c", "y">>,
     <<"i", "n", "d", "e", "x">>,
     <<"h", "o", "m", "e">>,
     <<"m", "a", "i", "n">>,
     <<"r", "o", "o", "t">>,
     <<"n", "u", "l", "l">>,
     <<"u", "n", "d", "e", "f", "i", "n", "e", "d">>,
     <<"t", "e", "s", "t">>,
     <<"d", "e", "m", "o">>,
     <<"s", "a", "m", "p", "l", "e">>,
     <<"e", "x", "a", "m", "p", "l", "e">>,
     <<"c", "s", "s">>,
     <<"j", "s">>,
     <<"i", "m", "g">>,
     <<"i", "m", "a", "g", "e", "s">>,
     <<"s", "t", "a", "t", "i", "c">>,
     <<"a", "s", "s", "e", "t", "s">>,
     <<"f", "u", "c", "k">>,
     <<"s", "h", "i", "t">>,
     <<"d", "a", "m", "n">>,
     <<"p", "o", "r", "n">>,
     <<"s", "e", "x">> }

\* re.match(r'^[a-zA-Z0-9_-]+$', code): $ matches at the end of the string
\* and also just before a newline that ends it
MatchesCodeCharset(code) ==
   Let(IF code # <<>> /\ code[Len(code)] = "\n"
       THEN SubSeq(code, 1, Len(code) - 1)
       ELSE code, LAMBDA body :
      /\ body # <<>>
      /\ \A i \in 1..Len(body) :
            IsAlpha(body[i]) \/ IsDigit(body[i]) \/ body[i] \in {"_", "-"})

\* a run of three identical characters taken for a run too long
HasRunOfFour_of_three(code) ==
   \E i \in 1..(Len(code) - 2) :
      code[i] # "\n" /\ code[i] = code[i + 1] /\ code[i] = code[i + 2]

\* re.search(r'(.)\1{3,}', code); the dot matches no newline
HasRunOfFour(code) ==
   \E i \in 1..(Len(code) - 3) :
      /\ code[i] # "\n"
      /\ code[i] = code[i + 1] /\ code[i] = code[i + 2] /\ code[i] = code[i + 3]

\* is_valid_custom_code comparing the code as written with the reserved words
is_valid_custom_code_case_sensitive(code_arg, min_length, max_length) ==
   Let(code_arg, LAMBDA code :
   IF ~Truthy(code) THEN <<FALSE, "Kod bos olamaz">>
   ELSE IF Len(code) < min_length THEN <<FALSE, "Kod en az {min_length} karakter olmali">>
   ELSE IF Len(code) > max_length
   THEN <<FALSE, "Kod en fazla {max_length} karakter olabilir">>
   ELSE IF ~MatchesCodeCharset(code)
   THEN <<FALSE, "Kod sadece harf, rakam, tire (-) ve alt cizgi (_) icerebilir">>
   ELSE IF IsDigit(code[1]) THEN <<FALSE, "Kod rakam ile baslayamaz">>
   ELSE IF code \in RESERVED_WORDS
   THEN <<FALSE, "'{code}' rezerve edilmis bir kelimedir">>
   ELSE IF HasRunOfFour(code)
   THEN <<FALSE, "Ust uste 4'ten fazla ayni karakter kullanilamaz">>
   ELSE <<TRUE, "">>)

\* is_valid_custom_code(code, min_length, max_length) -> (valid, message)
is_valid_custom_code(code_arg, min_length, max_length) ==
   Let(code_arg, LAMBDA code :
   IF ~Truthy(code) THEN <<FALSE, "Kod bos olamaz">>
   ELSE IF Len(code) < min_length THEN <<FALSE, "Kod en az {min_length} karakter olmali">>
   ELSE IF Len(code) > max_length
   THEN <<FALSE, "Kod en fazla {max_length} karakter olabilir">>
   ELSE IF ~MatchesCodeCharset(code)
   THEN <<FALSE, "Kod sadece harf, rakam, tire (-) ve alt cizgi (_) icerebilir">>
   ELSE IF IsDigit(code[1]) THEN <<FALSE, "Kod rakam ile baslayamaz">>
   ELSE IF Lower(code) \in RESERVED_WORDS
   THEN <<FALSE, "'{code}' rezerve edilmis bir kelimedir">>
   ELSE IF HasRunOfFour(code)
   THEN <<FALSE, "Ust uste 4'ten fazla ayni karakter kullanilamaz">>
   ELSE <<TRUE, "">>)

\* the defaults of is_valid_custom_code's parameters
DefaultMinLength == 3

DefaultMaxLength == 20

(***************************************************************************)
(* URLShortener                                                            *)
(***************************************************************************)
DefaultAlphabet ==
   <<
      "a", "b", "c", "d", "e", "f", "g", "h", "i", "j", "k", "l", "m", "n", "o", "p",
      "q", "r", "s", "t", "u", "v", "w", "x", "y", "z", "A", "B", "C", "D", "E", "F",
      "G", "H", "I", "J", "K", "L", "M", "N", "O", "P", "Q", "R", "S", "T", "U", "V",
      "W", "X", "Y", "Z", "0", "1", "2", "3", "4", "5", "6", "7", "8", "9"
   >>

DefaultLength == 6

AmbiguousChars == {"0", "O", "1", "l", "I"}

\* the constructor keeping the whole alphabet as the safe alphabet
URLShortener_unfiltered(alphabet, length) ==
   LET a == IF alphabet = <<>> THEN DefaultAlphabet ELSE alphabet
   IN  [alphabet |-> a, length |-> length, safe_alphabet |-> a]

\* URLShortener.__init__(alphabet, length); alphabet None is written <<>>,
\* which `or` treats alike
URLShortener(alphabet, length) ==
   LET a == IF alphabet = <<>> THEN DefaultAlphabet ELSE alphabet
   IN  [alphabet |-> a,
        length |-> length,
        safe_alphabet |-> SelectSeq(a, LAMBDA c : c \notin AmbiguousChars)]

\* the characters random.choices is left to pick, besides the ambiguous
\* ones where the safe alphabet holds them; one draw repeats one of them
\* code_length times
DrawChars == {"a", "b"}

\* generate_random_code(length): the codes a call can return; length None
\* is written 0, which `or` treats alike
generate_random_code(self, length) ==
   LET code_length == IF length = 0 THEN self.length ELSE length
   IN  {[i \in 1..code_length |-> c] :
           c \in (DrawChars \cup AmbiguousChars) \cap Range(self.safe_alphabet)}

\* the strings the model hashes, and their digests computed once
HashedStrings ==
   {normalize_url(u) : u \in UrlInputs} \cup {normalize_url(normalize_url(u)) : u \in UrlInputs}

Sha256Memo == [s \in HashedStrings |-> Sha256Hex(s)]

\* hashlib.sha256(s.encode()).hexdigest()
hexdigest(s) ==
   Let(s, LAMBDA t : IF t \in DOMAIN Sha256Memo THEN Sha256Memo[t] ELSE Sha256Hex(t))

\* lines 75-86: the digest of the string, two hex digits per character
HashToCode(self, s, code_length) ==
   Let(hexdigest(s), LAMBDA hash_hex :
   Let(self.safe_alphabet, LAMBDA safe_alphabet :
      [i \in 1..code_length |->
         Let(Slice(hash_hex, (i - 1) * 2, ((i - 1) * 2) + 2), LAMBDA hex_pair :
         Let(IntBase16(hex_pair) % Len(safe_alphabet), LAMBDA index :
            safe_alphabet[index + 1]))]))

\* generate_hash_based_code(url, length); length None is written 0
generate_hash_based_code(self, url, length) ==
   Let(IF length = 0 THEN self.length ELSE length, LAMBDA code_length :
   Let(normalize_url(url), LAMBDA normalized_url :
      HashToCode(self, normalized_url, code_length)))

\* the default of generate_unique_code's max_attempts
DefaultMaxAttempts == 100

(***************************************************************************)
(* The module-level validators of utils.py as its callers use them.  The   *)
(* verdicts for the argument strings of the model are computed once.       *)
(***************************************************************************)
\* is_valid_url(u) in strict mode, the default
UrlCheck == [u \in UrlInputs |-> is_valid_url(u, TRUE)]

\* normalize_url(u)
NormalizedUrl == [u \in UrlInputs |-> normalize_url(u)]

\* is_valid_custom_code(c) with the default bounds
CodeCheck ==
   [c \in CustomInputs |-> is_valid_custom_code(c, DefaultMinLength, DefaultMaxLength)]

\* url_validator.is_valid_url(url)
url_validator_is_valid_url(url) ==
   Let(url, LAMBDA u : IF u \in DOMAIN UrlCheck THEN UrlCheck[u] ELSE is_valid_url(u, TRUE))

\* url_validator.normalize_url(url)
url_validator_normalize_url(url) ==
   Let(url, LAMBDA u : IF u \in DOMAIN NormalizedUrl THEN NormalizedUrl[u] ELSE normalize_url(u))

\* code_validator.is_valid_custom_code(code)
code_validator_is_valid_custom_code(code) ==
   Let(code, LAMBDA c :
      IF c \in DOMAIN CodeCheck THEN CodeCheck[c]
      ELSE is_valid_custom_code(c, DefaultMinLength, DefaultMaxLength))

(***************************************************************************)
(* URLShortenForm of app.py: the wtforms validators of its fields          *)
(***************************************************************************)
\* a host-name part for wtforms: ^(xn-|[a-z0-9_]+)(-[a-z0-9_-]+)*$
IsFormHostLabel(l) ==
   /\ l # <<>>
   /\ IsAlpha(l[1]) \/ IsDigit(l[1]) \/ l[1] = "_"
   /\ \A j \in 1..Len(l) : IsAlpha(l[j]) \/ IsDigit(l[j]) \/ l[j] \in {"_", "-"}
   /\ ~(l[Len(l)] = "-" /\ \A j \in 1..(Len(l) - 1) : l[j] # "-")

\* the host check of wtforms' URL(): an IPv4 address, or a host name of
\* parts of at most 63 characters whose last part is 2 to 20 letters
IsFormHost(h) ==
   Let(Split(h, "."), LAMBDA parts :
      \/ /\ Len(parts) = 4
         /\ \A k \in 1..4 :
               /\ parts[k] # <<>>
               /\ \A j \in 1..Len(parts[k]) : IsDigit(parts[k][j])
               /\ IntBase10(parts[k]) <= 255
      \/ /\ Len(h) <= 253
         /\ Len(parts) >= 2
         /\ \A k \in 1..Len(parts) : IsFormHostLabel(parts[k]) /\ Len(parts[k]) <= 63
         /\ Len(parts[Len(parts)]) \in 2..20
         /\ \A j \in 1..Len(parts[Len(parts)]) : IsAlpha(parts[Len(parts)][j]))

\* 0-based index of the first of : / ? in s, or its length
FormHostEnd(s) ==
   Let({Find(s, c, 0) : c \in {":", "/", "?"}} \ {-1}, LAMBDA hits :
      IF hits = {} THEN Len(s)
      ELSE CHOOSE d \in hits : \A e \in hits : d <= e)

\* 0-based index of the first character of s at or after start that is no digit
DigitsEnd(s, start) ==
   Let({j \in start..(Len(s) - 1) : ~IsDigit(s[j + 1])}, LAMBDA others :
      IF others = {} THEN Len(s)
      ELSE CHOOSE d \in others : \A e \in others : d <= e)

\* wtforms.validators.URL(): the regex
\* ^[a-z]+://(?P<host>[^\/\?:]+)(?P<port>:[0-9]+)?(?P<path>\/.*?)?(?P<query>\?.*)?$
\* matched ignoring case, then the host check
FormUrl(data_arg) ==
   Let(data_arg, LAMBDA data :
   Let(Find(data, ":", 0), LAMBDA i :
   Let(Slice(data, i + 3, Len(data)), LAMBDA rest :
   Let(FormHostEnd(rest), LAMBDA e :
   Let(Slice(rest, 0, e), LAMBDA host :
   Let(IF Slice(rest, e, e + 1) = <<":">> THEN DigitsEnd(rest, e + 1) ELSE e, LAMBDA t :
      /\ i > 0
      /\ \A j \in 1..i : IsAlpha(data[j])
      /\ Slice(data, i, i + 3) = SchemeSep
      /\ host # <<>>
      /\ Slice(rest, e, e + 1) = <<":">> => t > e + 1
      /\ t = Len(rest) \/ rest[t + 1] \in {"/", "?"}
      /\ IsFormHost(host)))))))

\* form.validate_on_submit() of a POST: url is DataRequired, Length(10, 2048)
\* and URL(); custom_code is Optional and Length(3, 20).  A field left out
\* is None.
URLShortenForm_validate(url_data, code_data) ==
   /\ url_data # None
   /\ Strip(url_data) # <<>>
   /\ Len(url_data) >= 10 /\ Len(url_data) <= 2048
   /\ FormUrl(url_data)
   /\ \/ code_data = None
      \/ Strip(code_data) = <<>>
      \/ (Len(code_data) >= 3 /\ Len(code_data) <= 20)

(***************************************************************************)
(* State                                                                   *)
(***************************************************************************)
VARIABLES
   url_shortener,   \* the module-level URLShortener instance of utils.py
   call,            \* per thread: the activation of the utils.py function it runs
   urls,            \* the rows of the urls table, in insertion order
   request,         \* per thread: the request its route handler is serving
   served           \* the number of requests the server has taken

vars == <<url_shortener, call, urls, request, served>>

\* threads of the process (app.run(threaded=True))
NumProcs == 2

Procs == 1..NumProcs

\* largest max_attempts a direct caller of generate_unique_code passes
MaxAttemptsArg == 12

\* the number of requests a run of the server takes
MaxRequests == 2

\* None where a set is expected
NoneSet == {None}

NoResult == <<FALSE, <<>>, <<>>>>

IdleFrame ==
   [op |-> "idle",
    pc |-> "idle",
    original_url |-> None,
    custom_code |-> None,
    url |-> None,
    existing_arg |-> {},
    existing_codes |-> {},
    max_attempts |-> 0,
    length |-> 0,
    hash_code |-> None,
    attempt |-> 0,
    draws |-> 0,
    random_code |-> None,
    short_code |-> None,
    result |-> NoResult,
    strict |-> TRUE,
    value |-> None]

IdleRequest ==
   [route |-> "none",
    pc |-> "idle",
    original_url |-> None,
    custom_code |-> None,
    existing_codes |-> {},
    success |-> FALSE,
    short_code |-> <<>>,
    status |-> 0,
    message |-> <<>>,
    url_id |-> 0,
    click_count |-> 0]

\* the longest random code the retry loop of a default call can draw
MaxDrawLength == DefaultLength + ((DefaultMaxAttempts - 1) \div 10)

\* a random draw of length k for each character random.choices may repeat
DrawsOfLength(k) == {[i \in 1..k |-> c] : c \in DrawChars}

\* the codes generate_unique_code tries first for a url, raw or normalized
FirstCodes ==
   [u \in UrlInputs |->
      Let(URLShortener(<<>>, DefaultLength), LAMBDA self :
         {generate_hash_based_code(self, u, 0),
          generate_hash_based_code(self, normalize_url(u), 0)})]

\* existing_codes arguments: None and every union of these groups of codes
ExistingInputs ==
   [u \in UrlInputs |->
      LET groups == { FirstCodes[u],
                      {[i \in 1..DefaultLength |-> "a"]},
                      {[i \in 1..DefaultLength |-> "b"]},
                      UNION {DrawsOfLength(k) : k \in (DefaultLength + 1)..MaxDrawLength},
                      {Code_mylink, Code_admin} }
      IN  {UNION g : g \in SUBSET groups} \cup {NoneSet}]

\* Url.__init__ and the column defaults: a new row of the urls table
Url(original_url, short_code) ==
   [original_url |-> original_url,
    short_code |-> short_code,
    click_count |-> 0,
    is_active |-> TRUE]

\* {url.short_code for url in Url.query.all()}
StoredCodes(table) == {table[i].short_code : i \in 1..Len(table)}

\* the plain URL the requests of the model shorten
Url_plain == S_http \o SchemeSep \o Host_a

\* the url field of a POST: left out, two URLs the form accepts (one whose
\* top-level domain create_short_url refuses) and one it does not
WebUrlInputs == {None, Url_plain, Url_tk, Url_spaces}

\* the custom_code field of a POST: left out, acceptable, reserved
WebCustomInputs == {None, Code_mylink, Code_admin}

\* form.validate_on_submit() for the fields of the model, computed once
FormCheck ==
   [url_data \in WebUrlInputs |->
      [code_data \in WebCustomInputs |-> URLShortenForm_validate(url_data, code_data)]]

RECURSIVE SeqOf(_)
\* the members of a set in some order
SeqOf(S) ==
   IF S = {} THEN <<>>
   ELSE Let(CHOOSE x \in S : TRUE, LAMBDA x : <<x>> \o SeqOf(S \ {x}))

\* a table left by earlier requests for Url_plain: its hash-derived code and
\* every code the retry loop can draw
FullTable ==
   Let(URLShortener(<<>>, DefaultLength), LAMBDA self :
      <<Url(Url_plain, generate_hash_based_code(self, Url_plain, 0))>>
      \o SeqOf({Url(Url_plain, c) :
                  c \in UNION {DrawsOfLength(k) : k \in DefaultLength..MaxDrawLength}}))

\* the custom code of a row that was taken out of service
Code_retired == <<"o", "l", "d">>

\* a table with a row that is no longer active (is_active False) and an
\* active one
RetiredTable ==
   <<[Url(Url_plain, Code_retired) EXCEPT !.is_active = FALSE], Url(Url_tk, Code_mylink)>>

\* the urls table the server starts on
InitialTables == {<<>>, FullTable, RetiredTable}

Init ==
   /\ url_shortener = URLShortener(<<>>, DefaultLength)
   /\ call = [p \in Procs |-> IdleFrame]
   /\ urls = <<>>
   /\ request = [p \in Procs |-> IdleRequest]
   /\ served = 0

(***************************************************************************)
(* create_short_url(original_url, custom_code, existing_codes)             *)
(***************************************************************************)
\* the validations with the custom code looked at before the URL
create_short_url_Begin_code_first(original_url, custom_code, existing_arg) ==
   Let(IF existing_arg = NoneSet \/ existing_arg = {} THEN {} ELSE existing_arg,
       LAMBDA existing_codes :
   Let(url_validator_is_valid_url(original_url), LAMBDA url_check :
   Let(code_validator_is_valid_custom_code(custom_code),
       LAMBDA code_check :
   Let([IdleFrame EXCEPT !.op = "create_short_url",
                         !.original_url = original_url,
                         !.custom_code = custom_code,
                         !.existing_arg = existing_arg,
                         !.existing_codes = existing_codes], LAMBDA frame :
      IF Truthy(custom_code) /\ ~code_check[1]
      THEN [frame EXCEPT !.pc = "done",
                         !.result = <<FALSE, <<>>, <<"Kod Hatasi: ", code_check[2]>>>>]
      ELSE IF ~url_check[1]
      THEN [frame EXCEPT !.pc = "done",
                         !.result = <<FALSE, <<>>, <<"URL Hatasi: ", url_check[2]>>>>]
      ELSE IF Truthy(custom_code)
      THEN IF custom_code \in existing_codes
           THEN [frame EXCEPT !.pc = "done",
                              !.result = <<FALSE, <<>>, <<"Bu kod zaten kullaniliyor">>>>]
           ELSE [frame EXCEPT !.pc = "done",
                              !.result = <<TRUE, custom_code, <<>>>>]
      ELSE [frame EXCEPT !.pc = "gen_hash",
                         !.url = url_validator_normalize_url(original_url),
                         !.max_attempts = DefaultMaxAttempts]))))

\* the validations with membership looked at before the custom code's format
create_short_url_Begin_membership_first(original_url, custom_code, existing_arg) ==
   Let(IF existing_arg = NoneSet \/ existing_arg = {} THEN {} ELSE existing_arg,
       LAMBDA existing_codes :
   Let(url_validator_is_valid_url(original_url), LAMBDA url_check :
   Let(code_validator_is_valid_custom_code(custom_code),
       LAMBDA code_check :
   Let([IdleFrame EXCEPT !.op = "create_short_url",
                         !.original_url = original_url,
                         !.custom_code = custom_code,
                         !.existing_arg = existing_arg,
                         !.existing_codes = existing_codes], LAMBDA frame :
      IF ~url_check[1]
      THEN [frame EXCEPT !.pc = "done",
                         !.result = <<FALSE, <<>>, <<"URL Hatasi: ", url_check[2]>>>>]
      ELSE IF Truthy(custom_code)
      THEN IF custom_code \in existing_codes
           THEN [frame EXCEPT !.pc = "done",
                              !.result = <<FALSE, <<>>, <<"Bu kod zaten kullaniliyor">>>>]
           ELSE IF ~code_check[1]
           THEN [frame EXCEPT !.pc = "done",
                              !.result = <<FALSE, <<>>, <<"Kod Hatasi: ", code_check[2]>>>>]
           ELSE [frame EXCEPT !.pc = "done",
                              !.result = <<TRUE, custom_code, <<>>>>]
      ELSE [frame EXCEPT !.pc = "gen_hash",
                         !.url = url_validator_normalize_url(original_url),
                         !.max_attempts = DefaultMaxAttempts]))))

\* the custom code validated whenever one was passed, the empty string too
create_short_url_Begin_empty_checked(original_url, custom_code, existing_arg) ==
   Let(IF existing_arg = NoneSet \/ existing_arg = {} THEN {} ELSE existing_arg,
       LAMBDA existing_codes :
   Let(url_validator_is_valid_url(original_url), LAMBDA url_check :
   Let([IdleFrame EXCEPT !.op = "create_short_url",
                         !.original_url = original_url,
                         !.custom_code = custom_code,
                         !.existing_arg = existing_arg,
                         !.existing_codes = existing_codes], LAMBDA frame :
      IF ~url_check[1]
      THEN [frame EXCEPT !.pc = "done",
                         !.result = <<FALSE, <<>>, <<"URL Hatasi: ", url_check[2]>>>>]
      ELSE Let(url_validator_normalize_url(original_url), LAMBDA normalized_url :
           IF custom_code # None
           THEN Let(code_validator_is_valid_custom_code(custom_code),
                    LAMBDA code_check :
                IF ~code_check[1]
                THEN [frame EXCEPT !.pc = "done",
                                   !.result = <<FALSE, <<>>, <<"Kod Hatasi: ", code_check[2]>>>>]
                ELSE IF custom_code \in existing_codes
                THEN [frame EXCEPT !.pc = "done",
                                   !.result = <<FALSE, <<>>, <<"Bu kod zaten kullaniliyor">>>>]
                ELSE [frame EXCEPT !.pc = "done",
                                   !.result = <<TRUE, custom_code, <<>>>>])
           ELSE [frame EXCEPT !.pc = "gen_hash",
                              !.url = normalized_url,
                              !.max_attempts = DefaultMaxAttempts]))))

\* lines 437-459: the activation after the validations, either returning
\* their verdict or about to call generate_unique_code
create_short_url_Begin(original_url, custom_code, existing_arg) ==
   Let(IF existing_arg = NoneSet \/ existing_arg = {} THEN {} ELSE existing_arg,
       LAMBDA existing_codes :
   Let(url_validator_is_valid_url(original_url), LAMBDA url_check :
   Let([IdleFrame EXCEPT !.op = "create_short_url",
                         !.original_url = original_url,
                         !.custom_code = custom_code,
                         !.existing_arg = existing_arg,
                         !.existing_codes = existing_codes], LAMBDA frame :
      IF ~url_check[1]
      THEN [frame EXCEPT !.pc = "done",
                         !.result = <<FALSE, <<>>, <<"URL Hatasi: ", url_check[2]>>>>]
      ELSE Let(url_validator_normalize_url(original_url), LAMBDA normalized_url :
           IF Truthy(custom_code)
           THEN Let(code_validator_is_valid_custom_code(custom_code),
                    LAMBDA code_check :
                IF ~code_check[1]
                THEN [frame EXCEPT !.pc = "done",
                                   !.result = <<FALSE, <<>>, <<"Kod Hatasi: ", code_check[2]>>>>]
                ELSE IF custom_code \in existing_codes
                THEN [frame EXCEPT !.pc = "done",
                                   !.result = <<FALSE, <<>>, <<"Bu kod zaten kullaniliyor">>>>]
                ELSE [frame EXCEPT !.pc = "done",
                                   !.result = <<TRUE, custom_code, <<>>>>])
           ELSE [frame EXCEPT !.pc = "gen_hash",
                              !.url = normalized_url,
                              !.max_attempts = DefaultMaxAttempts]))))

create_short_url_Call(p) ==
   /\ call[p].pc = "idle"
   /\ \E original_url \in UrlInputs, custom_code \in CustomInputs :
      \E existing_arg \in ExistingInputs[original_url] :
         call' = [call EXCEPT ![p] =
                    create_short_url_Begin(original_url, custom_code, existing_arg)]
   /\ UNCHANGED <<url_shortener, urls, request, served>>

\* what generate_unique_code gave, passed on as a success whatever it is
create_short_url_Result_unchecked(short_code) ==
   <<TRUE, short_code, <<>>>>

\* lines 461-464: what create_short_url makes of generate_unique_code's value
create_short_url_Result(short_code) ==
   IF ~Truthy(short_code)
   THEN <<FALSE, <<>>, <<"Benzersiz kod uretilemedi, lutfen tekrar deneyin">>>>
   ELSE <<TRUE, short_code, <<>>>>

(***************************************************************************)
(* URLShortener.generate_unique_code(url, existing_codes, max_attempts)    *)
(***************************************************************************)
generate_unique_code_CallOn(p, url_args) ==
   /\ call[p].pc = "idle"
   /\ \E url \in url_args, max_attempts \in 0..MaxAttemptsArg :
      \E existing_codes \in ExistingInputs[url] \ {NoneSet} :
      call' = [call EXCEPT ![p] =
         [IdleFrame EXCEPT !.op = "generate_unique_code",
                           !.pc = "gen_hash",
                           !.url = url,
                           !.existing_codes = existing_codes,
                           !.max_attempts = max_attempts]]
   /\ UNCHANGED <<url_shortener, urls, request, served>>

\* the hash-based code computed but never returned: always on to the loop
generate_unique_code_try_hash_skipped(self, frame) ==
   Let(generate_hash_based_code(self, frame.url, 0), LAMBDA hash_code :
      [frame EXCEPT !.hash_code = hash_code, !.pc = "gen_loop"])

\* lines 102-104: the hash-based code first
generate_unique_code_try_hash(self, frame) ==
   Let(generate_hash_based_code(self, frame.url, 0), LAMBDA hash_code :
      IF hash_code \notin frame.existing_codes
      THEN [frame EXCEPT !.hash_code = hash_code, !.short_code = hash_code,
                         !.pc = "gen_return"]
      ELSE [frame EXCEPT !.hash_code = hash_code, !.pc = "gen_loop"])

\* the retry loop without the membership test on the candidate
generate_unique_code_try_random_unchecked(frame, random_code) ==
   [frame EXCEPT !.random_code = random_code, !.draws = @ + 1,
                 !.short_code = random_code, !.pc = "gen_return"]

\* the retry loop adding each candidate it drew to the set it was given
generate_unique_code_try_random_recording(frame, random_code) ==
   IF random_code \notin frame.existing_codes
   THEN [frame EXCEPT !.random_code = random_code, !.draws = @ + 1,
                      !.short_code = random_code, !.pc = "gen_return",
                      !.existing_codes = @ \cup {random_code}]
   ELSE [frame EXCEPT !.random_code = random_code, !.draws = @ + 1,
                      !.attempt = @ + 1]

\* the retry loop as a loop that does not count its iterations
generate_unique_code_try_random_uncounted(frame, random_code) ==
   IF random_code \notin frame.existing_codes
   THEN [frame EXCEPT !.random_code = random_code, !.draws = @ + 1,
                      !.short_code = random_code, !.pc = "gen_return"]
   ELSE [frame EXCEPT !.random_code = random_code]

\* lines 107-113: one iteration of the retry loop, for the code it drew
generate_unique_code_try_random(frame, random_code) ==
   IF random_code \notin frame.existing_codes
   THEN [frame EXCEPT !.random_code = random_code, !.draws = @ + 1,
                      !.short_code = random_code, !.pc = "gen_return"]
   ELSE [frame EXCEPT !.random_code = random_code, !.draws = @ + 1,
                      !.attempt = @ + 1]

\* the loop ran out and the last candidate is returned all the same
generate_unique_code_give_up_last_candidate(frame) ==
   [frame EXCEPT !.short_code = frame.random_code, !.pc = "gen_return"]

\* line 115: the loop ran out
generate_unique_code_give_up(frame) ==
   [frame EXCEPT !.short_code = None, !.pc = "gen_return"]

\* the value goes to the caller: create_short_url (lines 459-464) or a
\* direct caller
generate_unique_code_return(frame) ==
   IF frame.op = "create_short_url"
   THEN [frame EXCEPT !.pc = "done", !.result = create_short_url_Result(frame.short_code)]
   ELSE [frame EXCEPT !.pc = "done"]

\* every candidate of the retry loop drawn at the configured length
AttemptLength_configured(self, frame) == self.length

\* lines 107-109: the length of the candidate of the current attempt
AttemptLength(self, frame) == self.length + (frame.attempt \div 10)

generate_unique_code_Hash(p) ==
   /\ call[p].pc = "gen_hash"
   /\ call' = [call EXCEPT ![p] = generate_unique_code_try_hash(url_shortener, call[p])]
   /\ UNCHANGED <<url_shortener, urls, request, served>>

generate_unique_code_Attempt(p) ==
   /\ call[p].pc = "gen_loop"
   /\ call[p].attempt < call[p].max_attempts
   /\ \E random_code \in
            generate_random_code(url_shortener, AttemptLength(url_shortener, call[p])) :
         call' = [call EXCEPT ![p] = generate_unique_code_try_random(call[p], random_code)]
   /\ UNCHANGED <<url_shortener, urls, request, served>>

generate_unique_code_Exhausted(p) ==
   /\ call[p].pc = "gen_loop"
   /\ call[p].attempt >= call[p].max_attempts
   /\ call' = [call EXCEPT ![p] = generate_unique_code_give_up(call[p])]
   /\ UNCHANGED <<url_shortener, urls, request, served>>

generate_unique_code_Return(p) ==
   /\ call[p].pc = "gen_return"
   /\ call' = [call EXCEPT ![p] = generate_unique_code_return(call[p])]
   /\ UNCHANGED <<url_shortener, urls, request, served>>

\* the activations one step on from an activation that has not returned
StepOn(self, frame) ==
   IF frame.pc = "gen_hash" THEN {generate_unique_code_try_hash(self, frame)}
   ELSE IF frame.pc = "gen_loop" /\ frame.attempt < frame.max_attempts
   THEN {generate_unique_code_try_random(frame, random_code) :
            random_code \in generate_random_code(self, AttemptLength(self, frame))}
   ELSE IF frame.pc = "gen_loop" THEN {generate_unique_code_give_up(frame)}
   ELSE IF frame.pc = "gen_return" THEN {generate_unique_code_return(frame)}
   ELSE {frame}

RECURSIVE StepsOn(_, _, _)
\* the activations n steps on from a set of activations; one that has
\* returned stays as it is
StepsOn(self, frames, n) ==
   IF n = 0 \/ \A f \in frames : f.pc = "done" THEN frames
   ELSE IF n = 1 THEN UNION {StepOn(self, f) : f \in frames}
   ELSE Let(StepsOn(self, frames, n \div 2), LAMBDA F :
           StepsOn(self, F, n - (n \div 2)))

\* the activations a call can return with, whatever is drawn: the hash
\* step, at most max_attempts iterations, the end of the loop, the return
RunToReturn(self, frame) == StepsOn(self, {frame}, frame.max_attempts + 3)

\* create_short_url(original_url, custom_code, existing_codes) as one call:
\* the activations it can return with
create_short_url(original_url, custom_code, existing_arg) ==
   RunToReturn(url_shortener,
               create_short_url_Begin(original_url, custom_code, existing_arg))

generate_unique_code_Call(p) == generate_unique_code_CallOn(p, UrlInputs)

\* a direct call for the one plain URL
generate_unique_code_CallPlain(p) == generate_unique_code_CallOn(p, {Url_plain})

(***************************************************************************)
(* URLShortener.generate_hash_based_code(url, length), called directly     *)
(***************************************************************************)
\* length arguments: None (written 0), shorter and longer than the default
LengthInputs == {0, 4, 7}

generate_hash_based_code_Call(p) ==
   /\ call[p].pc = "idle"
   /\ \E url \in UrlInputs, length \in LengthInputs :
      call' = [call EXCEPT ![p] =
         [IdleFrame EXCEPT !.op = "generate_hash_based_code",
                           !.pc = "done",
                           !.url = url,
                           !.length = length,
                           !.hash_code = generate_hash_based_code(url_shortener, url, length)]]
   /\ UNCHANGED <<url_shortener, urls, request, served>>

(***************************************************************************)
(* URLValidator.normalize_url(url), called directly                        *)
(***************************************************************************)
Url_bracket_bare == <<"[", "a", ".", "c", "o">>

Url_bracket_spaces == <<" ", "h", "t", "t", "p", ":", "/", "/", "[", "a", ".", "c", "o", " ">>

\* url arguments of a direct call: those of create_short_url and two more
\* that urlparse refuses, one without a scheme and one inside blanks
NormalizeInputs == UrlInputs \cup {Url_bracket_bare, Url_bracket_spaces}

\* a call on one of the arguments, or on the value the last call returned
normalize_url_Call(p) ==
   /\ \E url \in IF call[p].pc = "idle" THEN NormalizeInputs
                 ELSE IF call[p].pc = "done" /\ call[p].op = "normalize_url"
                 THEN {call[p].value}
                 ELSE {} :
         call' = [call EXCEPT ![p] =
            [IdleFrame EXCEPT !.op = "normalize_url",
                              !.pc = "done",
                              !.url = url,
                              !.value = url_validator_normalize_url(url)]]
   /\ UNCHANGED <<url_shortener, urls, request, served>>

(***************************************************************************)
(* URLValidator.is_valid_url(url, strict) and _is_local_ip(domain), called *)
(* directly                                                                *)
(***************************************************************************)
\* a URL of n characters: 'ftp://a.c' cut or grown to n, the path filled
\* with x
UrlOfLength(n) ==
   IF n <= 10 THEN SubSeq(Url_ftp, 1, n)
   ELSE Url_ftp \o <<"/">> \o [i \in 1..(n - 11) |-> "x"]

\* the lengths on both sides of the two bounds of is_valid_url
LengthUrls == {UrlOfLength(n) : n \in {9, 10, 11, 2047, 2048, 2049}}

\* a string too long that is no URL either
Url_long_words == [i \in 1..2049 |-> "x"]

Quad(a, b, c, d) == a \o <<".">> \o b \o <<".">> \o c \o <<".">> \o d

\* hosts of four groups of digits, inside and outside the local ranges,
\* one with a leading zero
QuadHosts ==
   LET d0 == <<"0">>
       d1 == <<"1">>
   IN  { Quad(<<"1", "0">>, d0, d0, d1),
         Quad(<<"0", "1", "0">>, d0, d0, d1),
         Quad(<<"1", "0", "0">>, d0, d0, d1),
         Quad(<<"1", "7", "2">>, <<"1", "5">>, d0, d1),
         Quad(<<"1", "7", "2">>, <<"1", "6">>, d0, d1),
         Quad(<<"1", "7", "2">>, <<"3", "1">>, d0, d1),
         Quad(<<"1", "7", "2">>, <<"3", "2">>, d0, d1),
         Quad(<<"1", "9", "2">>, <<"1", "6", "8">>, d1, d1),
         Quad(<<"1", "9", "2">>, <<"1", "6", "9">>, d1, d1),
         Quad(<<"1", "2", "7">>, d0, d0, d1),
         Quad(<<"1", "2", "7">>, d1, <<"2">>, <<"3">>),
         Quad(<<"8">>, <<"8">>, <<"8">>, <<"8">>) }

\* host names that begin like a local address
PrefixHosts ==
   { <<"1", "0", ".", "0", ".", "0", ".", "1", ".", "c", "o">>,
     <<"1", "2", "7", ".", "c", "o">>,
     <<"1", "9", "2", ".", "1", "6", "8", ".", "c", "o">> }

\* a user name in front of the host
UserInfo == <<"u", "@">>

\* the blocked address under an upper-case scheme and with a port
Url_loopback_port ==
   S_HTTP \o SchemeSep \o <<"1", "2", "7", ".", "0", ".", "0", ".", "1">> \o Port81

\* url arguments of a direct call of is_valid_url
ValidateInputs ==
   UrlInputs \cup {None, Url_long_words, Url_loopback_port} \cup LengthUrls
   \cup {S_http \o SchemeSep \o h : h \in QuadHosts \cup PrefixHosts}
   \cup {S_http \o SchemeSep \o UserInfo \o h : h \in QuadHosts}

is_valid_url_Call(p) ==
   /\ call[p].pc = "idle"
   /\ \E url \in ValidateInputs, strict \in BOOLEAN :
         call' = [call EXCEPT ![p] =
            [IdleFrame EXCEPT !.op = "is_valid_url",
                              !.pc = "done",
                              !.url = url,
                              !.strict = strict,
                              !.value = is_valid_url(url, strict)]]
   /\ UNCHANGED <<url_shortener, urls, request, served>>

_is_local_ip_Call(p) ==
   /\ call[p].pc = "idle"
   /\ \E domain \in QuadHosts \cup PrefixHosts :
         call' = [call EXCEPT ![p] =
            [IdleFrame EXCEPT !.op = "_is_local_ip",
                              !.pc = "done",
                              !.url = domain,
                              !.value = <<_is_local_ip(domain)>>]]
   /\ UNCHANGED <<url_shortener, urls, request, served>>

(***************************************************************************)
(* CodeValidator.is_valid_custom_code(code), called directly               *)
(***************************************************************************)
Code_ADMIN == <<"A", "D", "M", "I", "N">>

Code_newline == <<"a", "b", "c", "\n">>

Code_run3 == <<"a", "a", "a", "b">>

Code_runs == <<"a", "a", "a", "b", "b", "b", "-", "-", "-", "a", "a", "a">>

Code_only_run == <<"_", "_", "_", "_">>

Code_short_digit == <<"9", "!">>

Code_long_bang == [i \in 1..21 |-> "!"]

Code_digit_bang == <<"9", "!", "!", "!", "!">>

Code_digit_run == <<"9", "9", "9", "9", "9">>

\* code arguments of a direct call: those of create_short_url, the reserved
\* word in upper case, a code ending in a newline, codes with runs of three,
\* and codes that break several rules at once
CodeInputs ==
   CustomInputs \cup
   { Code_ADMIN, Code_newline, Code_run3, Code_runs, Code_only_run,
     Code_short_digit, Code_long_bang, Code_digit_bang, Code_digit_run }

is_valid_custom_code_Call(p) ==
   /\ call[p].pc = "idle"
   /\ \E code \in CodeInputs :
         call' = [call EXCEPT ![p] =
            [IdleFrame EXCEPT !.op = "is_valid_custom_code",
                              !.pc = "done",
                              !.custom_code = code,
                              !.value = code_validator_is_valid_custom_code(code)]]
   /\ UNCHANGED <<url_shortener, urls, request, served>>

\* the caller takes the value and is free to call again
Caller_Done(p) ==
   /\ call[p].pc = "done"
   /\ call' = [call EXCEPT ![p] = IdleFrame]
   /\ UNCHANGED <<url_shortener, urls, request, served>>

(***************************************************************************)
(* One caller using the engine as a library                                *)
(***************************************************************************)
Caller == CHOOSE p \in Procs : \A q \in Procs : p <= q

Next ==
   \/ create_short_url_Call(Caller)
   \/ generate_unique_code_Call(Caller)
   \/ generate_hash_based_code_Call(Caller)
   \/ normalize_url_Call(Caller)
   \/ is_valid_url_Call(Caller)
   \/ _is_local_ip_Call(Caller)
   \/ is_valid_custom_code_Call(Caller)
   \/ generate_unique_code_Hash(Caller)
   \/ generate_unique_code_Attempt(Caller)
   \/ generate_unique_code_Exhausted(Caller)
   \/ generate_unique_code_Return(Caller)
   \/ Caller_Done(Caller)

Spec == Init /\ [][Next]_vars

\* the caller calling generate_unique_code alone, for one URL; it is a
\* running thread, which goes on whenever it has a step to take
NextGenerate ==
   \/ generate_unique_code_CallPlain(Caller)
   \/ generate_unique_code_Hash(Caller)
   \/ generate_unique_code_Attempt(Caller)
   \/ generate_unique_code_Exhausted(Caller)
   \/ generate_unique_code_Return(Caller)
   \/ Caller_Done(Caller)

SpecGenerate == Init /\ [][NextGenerate]_vars /\ WF_vars(NextGenerate)

(***************************************************************************)
(* The shorten routes of app.py, one request per thread.  A request takes  *)
(* two steps: up to the return of create_short_url, with the read of the   *)
(* stored codes, and from there to the response, with the commit.          *)
(* create_short_url works on its arguments only, so its steps are taken at *)
(* once.                                                                   *)
(***************************************************************************)
\* db.session.add and commit with no unique constraint on short_code
db_session_commit_unconstrained(table, url_obj) ==
   [ok |-> TRUE, urls |-> Append(table, url_obj)]

\* a refused INSERT that is not rolled back
db_session_commit_not_rolled_back(table, url_obj) ==
   IF url_obj.short_code \in StoredCodes(table)
   THEN [ok |-> FALSE, urls |-> Append(table, url_obj)]
   ELSE [ok |-> TRUE, urls |-> Append(table, url_obj)]

\* db.session.add(url_obj); db.session.commit(): the INSERT is refused when
\* the short_code is stored already (unique=True), and nothing is added
db_session_commit(table, url_obj) ==
   IF url_obj.short_code \in StoredCodes(table)
   THEN [ok |-> FALSE, urls |-> table]
   ELSE [ok |-> TRUE, urls |-> Append(table, url_obj)]

\* index(), POST, lines 271-286: the form, the stored codes, the call
index_Begin(p) ==
   /\ request[p].pc \in {"idle", "responded"}
   /\ served < MaxRequests
   /\ \E url_data \in WebUrlInputs, code_data \in WebCustomInputs :
         IF ~FormCheck[url_data][code_data]
         THEN /\ request' = [request EXCEPT ![p] =
                    [IdleRequest EXCEPT !.route = "index", !.pc = "responded",
                                        !.status = 200]]
              /\ call' = call
         ELSE \E original_url \in {Strip(url_data)},
                 custom_code \in {IF Truthy(code_data) THEN Strip(code_data) ELSE None},
                 existing_codes \in {StoredCodes(urls)} :
                 /\ request' = [request EXCEPT ![p] =
                       [IdleRequest EXCEPT !.route = "index", !.pc = "in_call",
                                           !.original_url = original_url,
                                           !.custom_code = custom_code,
                                           !.existing_codes = existing_codes]]
                 /\ \E frame \in create_short_url(original_url, custom_code, existing_codes) :
                       call' = [call EXCEPT ![p] = frame]
   /\ served' = served + 1
   /\ UNCHANGED <<url_shortener, urls>>

\* index(), lines 288-317: the record added and committed, or the error flashed
index_Finish(p) ==
   /\ request[p].route = "index"
   /\ request[p].pc = "in_call"
   /\ call[p].pc = "done"
   /\ \E result \in {call[p].result} :
         IF result[1]
         THEN \E done \in {db_session_commit(urls, Url(request[p].original_url, result[2]))} :
                 /\ urls' = done.urls
                 /\ request' = [request EXCEPT ![p] =
                       [IdleRequest EXCEPT
                                 !.route = "index",
                                 !.pc = "responded",
                                 !.success = TRUE,
                                 !.short_code = result[2],
                                 !.status = IF done.ok THEN 302 ELSE 200,
                                 !.message = IF done.ok
                                             THEN <<"URL basariyla kisaltildi!">>
                                             ELSE <<"Bir hata olustu. Lutfen tekrar deneyin.">>]]
         ELSE /\ urls' = urls
              /\ request' = [request EXCEPT ![p] =
                    [IdleRequest EXCEPT !.route = "index", !.pc = "responded",
                                        !.status = 200, !.message = result[3]]]
   /\ call' = [call EXCEPT ![p] = IdleFrame]
   /\ UNCHANGED <<url_shortener, served>>

\* api_shorten(), lines 385-403: the JSON body, the URL check, the stored
\* codes, the call
api_shorten_Begin(p) ==
   /\ request[p].pc \in {"idle", "responded"}
   /\ served < MaxRequests
   /\ \E url_data \in WebUrlInputs, code_data \in WebCustomInputs :
         IF url_data = None
         THEN /\ request' = [request EXCEPT ![p] =
                    [IdleRequest EXCEPT !.route = "api_shorten", !.pc = "responded",
                                        !.status = 400,
                                        !.message = <<"URL gereklidir">>]]
              /\ call' = call
         ELSE \E original_url \in {Strip(url_data)},
                 custom_code \in {IF code_data # None /\ Strip(code_data) # <<>>
                                  THEN Strip(code_data) ELSE None} :
              \E url_check \in {url_validator_is_valid_url(original_url)} :
                 IF ~url_check[1]
                 THEN /\ request' = [request EXCEPT ![p] =
                            [IdleRequest EXCEPT !.route = "api_shorten", !.pc = "responded",
                                                !.status = 400,
                                                !.message = <<url_check[2]>>]]
                      /\ call' = call
                 ELSE \E existing_codes \in {StoredCodes(urls)} :
                         /\ request' = [request EXCEPT ![p] =
                               [IdleRequest EXCEPT !.route = "api_shorten", !.pc = "in_call",
                                                   !.original_url = original_url,
                                                   !.custom_code = custom_code,
                                                   !.existing_codes = existing_codes]]
                         /\ \E frame \in create_short_url(original_url, custom_code,
                                                          existing_codes) :
                               call' = [call EXCEPT ![p] = frame]
   /\ served' = served + 1
   /\ UNCHANGED <<url_shortener, urls>>

\* api_shorten(), lines 405-433: 400 on a failure, else the record added and
\* committed and 201, or the rollback and 500
api_shorten_Finish(p) ==
   /\ request[p].route = "api_shorten"
   /\ request[p].pc = "in_call"
   /\ call[p].pc = "done"
   /\ \E result \in {call[p].result} :
         IF result[1]
         THEN \E done \in {db_session_commit(urls, Url(request[p].original_url, result[2]))} :
                 /\ urls' = done.urls
                 /\ request' = [request EXCEPT ![p] =
                       [IdleRequest EXCEPT
                                 !.route = "api_shorten",
                                 !.pc = "responded",
                                 !.success = TRUE,
                                 !.short_code = result[2],
                                 !.status = IF done.ok THEN 201 ELSE 500,
                                 !.message = IF done.ok THEN <<>> ELSE <<"Sunucu hatasi">>]]
         ELSE /\ urls' = urls
              /\ request' = [request EXCEPT ![p] =
                    [IdleRequest EXCEPT !.route = "api_shorten", !.pc = "responded",
                                        !.status = 400, !.message = result[3]]]
   /\ call' = [call EXCEPT ![p] = IdleFrame]
   /\ UNCHANGED <<url_shortener, served>>

(***************************************************************************)
(* redirect_url(code) of app.py, one request per thread, in three steps:   *)
(* the row read, the count of the loaded object raised, the commit.        *)
(***************************************************************************)
\* Url.find_by_short_code: the place of the first active row with the code,
\* 0 for None
find_by_short_code(table, short_code) ==
   Let({i \in 1..Len(table) : table[i].short_code = short_code /\ table[i].is_active},
       LAMBDA rows :
      IF rows = {} THEN 0 ELSE CHOOSE i \in rows : \A j \in rows : i <= j)

\* the codes asked for: the code of the first row of the full table, a
\* custom code, the code of the retired row, a code never stored
RedirectCodes == {FullTable[1].short_code, Code_mylink, Code_retired, Code_bang}

\* the UPDATE of increment_click_count without its WHERE clause
increment_click_count_commit_every_row(table, url_id, click_count) ==
   [i \in 1..Len(table) |-> [table[i] EXCEPT !.click_count = click_count]]

\* db.session.commit() of increment_click_count: the UPDATE writes the
\* click_count of the loaded object to its row
increment_click_count_commit(table, url_id, click_count) ==
   [table EXCEPT ![url_id].click_count = click_count]

\* redirect_url, lines 329-333: the row looked up, 404 when there is none
redirect_url_Begin(p) ==
   /\ request[p].pc \in {"idle", "responded"}
   /\ served < MaxRequests
   /\ \E code \in RedirectCodes :
      \E url_id \in {find_by_short_code(urls, code)} :
         request' = [request EXCEPT ![p] =
            IF url_id = 0
            THEN [IdleRequest EXCEPT !.route = "redirect_url", !.pc = "responded",
                                     !.short_code = code, !.status = 404]
            ELSE [IdleRequest EXCEPT !.route = "redirect_url", !.pc = "found",
                                     !.short_code = code,
                                     !.url_id = url_id,
                                     !.original_url = urls[url_id].original_url,
                                     !.click_count = urls[url_id].click_count]]
   /\ served' = served + 1
   /\ UNCHANGED <<url_shortener, call, urls>>

\* increment_click_count, line 71 of models.py: self.click_count += 1 on
\* the loaded object
redirect_url_Add(p) ==
   /\ request[p].route = "redirect_url"
   /\ request[p].pc = "found"
   /\ request' = [request EXCEPT ![p].click_count = @ + 1, ![p].pc = "added"]
   /\ UNCHANGED <<url_shortener, call, urls, served>>

\* increment_click_count, line 73 of models.py, and redirect_url, lines
\* 338-343: the commit, which may raise and is then only logged, and the
\* redirect to the original URL
redirect_url_Commit(p) ==
   /\ request[p].route = "redirect_url"
   /\ request[p].pc = "added"
   /\ \E committed \in BOOLEAN :
         /\ urls' = IF committed
                    THEN increment_click_count_commit(urls, request[p].url_id,
                                                      request[p].click_count)
                    ELSE urls
         /\ request' = [request EXCEPT ![p].pc = "responded",
                                       ![p].success = committed,
                                       ![p].status = 302]
   /\ UNCHANGED <<url_shortener, call, served>>

InitWeb ==
   /\ url_shortener = URLShortener(<<>>, DefaultLength)
   /\ call = [p \in Procs |-> IdleFrame]
   /\ urls \in InitialTables
   /\ request = [p \in Procs |-> IdleRequest]
   /\ served = 0

NextWeb ==
   \E p \in Procs :
      \/ index_Begin(p)
      \/ index_Finish(p)
      \/ api_shorten_Begin(p)
      \/ api_shorten_Finish(p)
      \/ redirect_url_Begin(p)
      \/ redirect_url_Add(p)
      \/ redirect_url_Commit(p)

SpecWeb == InitWeb /\ [][NextWeb]_vars

TypeOK ==
   /\ \A p \in Procs :
         /\ call[p].pc \in {"idle", "gen_hash", "gen_loop", "gen_return", "done"}
         /\ call[p].attempt \in 0..DefaultMaxAttempts
         /\ request[p].pc \in {"idle", "in_call", "found", "added", "responded"}
   /\ served \in 0..MaxRequests

(***************************************************************************)
(* The verdicts and codes of the argument strings, computed once           *)
(***************************************************************************)
\* the hash-derived code of the normalized URL, at the default length
NormalizedHashCode ==
   [u \in UrlInputs |->
      HashToCode(URLShortener(<<>>, DefaultLength), normalize_url(u), DefaultLength)]

\* generate_hash_based_code(u, n) of the module-level instance
HashCodeOf ==
   [u \in UrlInputs |->
      [n \in LengthInputs |->
         generate_hash_based_code(URLShortener(<<>>, DefaultLength), u, n)]]

\* the default port of a scheme, as normalize_url strips it
DefaultPort(scheme) ==
   IF Lower(scheme) = S_http THEN Port80
   ELSE IF Lower(scheme) = S_https THEN Port443
   ELSE <<>>

(***************************************************************************)
(* Properties                                                              *)
(***************************************************************************)
\* a call of generate_unique_code, direct or from create_short_url, that
\* has produced its value
Generated(p) ==
   /\ call[p].op \in {"generate_unique_code", "create_short_url"}
   /\ call[p].pc \in {"gen_return", "done"}
   /\ call[p].hash_code # None

\* a call of create_short_url that has returned
Returned(p) == call[p].op = "create_short_url" /\ call[p].pc = "done"

\* C1: a code returned by generate_unique_code is never a member of the
\* existing-codes set it was given; when the set holds the hash-derived code
\* of the URL, the returned code is not that hash-derived code.
C1_ReturnedCodeNotExisting ==
   \A p \in Procs :
      (Generated(p) /\ call[p].short_code # None) =>
         /\ call[p].short_code \notin call[p].existing_codes
         /\ (call[p].hash_code \in call[p].existing_codes
               => call[p].short_code # call[p].hash_code)

\* a direct call given a set holding the hash-derived code and one of the two
\* length-6 draws (so that a draw collided) has returned a random code
C1_Witness ==
   \E p \in Procs :
      /\ Generated(p) /\ call[p].op = "generate_unique_code" /\ call[p].pc = "done"
      /\ call[p].hash_code \in call[p].existing_codes
      /\ call[p].attempt > 0
      /\ call[p].short_code # None
      /\ call[p].short_code = call[p].random_code

\* C2: when the hash-derived code and all max_attempts random candidates are
\* in the existing-codes set, generate_unique_code returns None and
\* create_short_url returns (False, '', the could-not-generate reason); a
\* code create_short_url returns is never in the set.
C2_ExhaustionSignalled ==
   \A p \in Procs :
      /\ (/\ Generated(p)
          /\ call[p].hash_code \in call[p].existing_codes
          /\ call[p].attempt = call[p].max_attempts)
         => /\ call[p].short_code = None
            /\ Returned(p) =>
                  call[p].result =
                     <<FALSE, <<>>, <<"Benzersiz kod uretilemedi, lutfen tekrar deneyin">>>>
      /\ (Returned(p) /\ call[p].result[1])
         => call[p].result[2] \notin call[p].existing_codes

\* create_short_url has returned after the hash-derived code and each of the
\* 100 candidates of the default loop collided
C2_Witness ==
   \E p \in Procs :
      /\ Returned(p) /\ Generated(p)
      /\ call[p].hash_code \in call[p].existing_codes
      /\ call[p].max_attempts = DefaultMaxAttempts
      /\ call[p].attempt = call[p].max_attempts
      /\ call[p].draws = call[p].max_attempts
      /\ ~call[p].result[1]

\* two rows of the urls table never hold the same short_code
UniqueShortCodes ==
   \A i, j \in 1..Len(urls) : i # j => urls[i].short_code # urls[j].short_code

\* thread p finishes a request whose create_short_url succeeded with a code
\* that is stored by now
LateConflict(p) ==
   /\ request[p].pc = "in_call" /\ request'[p].pc = "responded"
   /\ call[p].pc = "done" /\ call[p].result[1]
   /\ call[p].result[2] \in StoredCodes(urls)

\* C3: in any interleaving of shorten requests of the two routes, the stored
\* rows never hold one short_code twice: the commit of a request whose code
\* was stored in the meantime fails, the request answers with an error, and
\* the table is as before.
C3_StoreKeepsCodesUnique ==
   /\ []UniqueShortCodes
   /\ [][\A p \in Procs :
            LateConflict(p) => (urls' = urls /\ request'[p].status \in {200, 500})]_vars

\* a request was refused at its commit: its code is stored, by the row of
\* the request that committed first
C3_Witness ==
   \E p \in Procs :
      /\ request[p].pc = "responded" /\ request[p].success
      /\ request[p].status \in {200, 500}
      /\ request[p].short_code \in StoredCodes(urls)
      /\ UniqueShortCodes

\* C4: create_short_url decides from its arguments alone: two threads that
\* pass equal existing-codes snapshots and the same URL (whose hash-derived
\* code the snapshot lacks), or the same custom code with valid URLs, hold
\* equal successful results, whatever the other thread is about to store.
C4_SameSnapshotSameCode ==
   \A p, q \in Procs :
      (/\ p # q
       /\ request[p].pc = "in_call" /\ request[q].pc = "in_call"
       /\ Returned(p) /\ Returned(q)
       /\ call[p].existing_codes = call[q].existing_codes
       /\ call[p].result[1]
       /\ \/ /\ ~Truthy(call[p].custom_code) /\ ~Truthy(call[q].custom_code)
             /\ call[p].original_url = call[q].original_url
             /\ call[p].hash_code \notin call[p].existing_codes
          \/ /\ Truthy(call[p].custom_code)
             /\ call[p].custom_code = call[q].custom_code
             /\ UrlCheck[call[q].original_url][1])
      => /\ call[q].result = call[p].result
         /\ call[q].result[3] = <<>>

\* two requests hold the same successful code, from equal snapshots, and
\* neither has stored it
C4_Witness ==
   \E p, q \in Procs :
      /\ p # q
      /\ request[p].pc = "in_call" /\ request[q].pc = "in_call"
      /\ Returned(p) /\ Returned(q)
      /\ call[p].existing_codes = call[q].existing_codes
      /\ call[p].result[1] /\ call[q].result = call[p].result
      /\ ~Truthy(call[p].custom_code)
      /\ call[p].result[2] \notin StoredCodes(urls)

\* C5: every result of create_short_url is (True, a non-empty code, '') or
\* (False, '', a non-empty reason).
C5_ResultShape ==
   \A p \in Procs :
      Returned(p) =>
         \/ /\ call[p].result[1]
            /\ Truthy(call[p].result[2])
            /\ call[p].result[3] = <<>>
         \/ /\ ~call[p].result[1]
            /\ call[p].result[2] = <<>>
            /\ call[p].result[3] # <<>>

\* create_short_url has returned what it made of an exhausted
\* generate_unique_code
C5_Witness ==
   \E p \in Procs :
      /\ Returned(p) /\ Generated(p)
      /\ call[p].short_code = None
      /\ ~call[p].result[1] /\ call[p].result[2] = <<>> /\ call[p].result[3] # <<>>

\* C6: when the URL fails strict validation, create_short_url returns the
\* URL error whatever the custom code and the set are, and neither the hash
\* nor a random candidate has been computed.
C6_UrlCheckedFirst ==
   \A p \in Procs :
      (call[p].op = "create_short_url" /\ ~UrlCheck[call[p].original_url][1]) =>
         /\ call[p].pc = "done"
         /\ call[p].result =
               <<FALSE, <<>>, <<"URL Hatasi: ", UrlCheck[call[p].original_url][2]>>>>
         /\ call[p].hash_code = None
         /\ call[p].draws = 0

\* a URL error returned for a call whose custom code is a reserved word and
\* a member of the set
C6_Witness ==
   \E p \in Procs :
      /\ Returned(p)
      /\ ~UrlCheck[call[p].original_url][1]
      /\ call[p].custom_code = Code_admin
      /\ Code_admin \in call[p].existing_codes
      /\ call[p].result[3][1] = "URL Hatasi: "

\* C7: with a valid URL and a custom code, create_short_url returns the code
\* error when the code is invalid (also when the code is in the set), else
\* the in-use failure when the code is in the set, else (True, the custom
\* code, ''), and in no case computes the hash or a random candidate.
C7_CustomCodePath ==
   \A p \in Procs :
      (/\ call[p].op = "create_short_url"
       /\ UrlCheck[call[p].original_url][1]
       /\ Truthy(call[p].custom_code)) =>
         /\ call[p].pc = "done"
         /\ call[p].hash_code = None
         /\ call[p].draws = 0
         /\ call[p].result =
               IF ~CodeCheck[call[p].custom_code][1]
               THEN <<FALSE, <<>>, <<"Kod Hatasi: ", CodeCheck[call[p].custom_code][2]>>>>
               ELSE IF call[p].custom_code \in call[p].existing_codes
               THEN <<FALSE, <<>>, <<"Bu kod zaten kullaniliyor">>>>
               ELSE <<TRUE, call[p].custom_code, <<>>>>

\* the code error returned for an invalid custom code that is in the set
C7_Witness ==
   \E p \in Procs :
      /\ Returned(p)
      /\ UrlCheck[call[p].original_url][1]
      /\ call[p].custom_code = Code_admin
      /\ Code_admin \in call[p].existing_codes
      /\ call[p].result[3][1] = "Kod Hatasi: "

\* C8: for a URL that passes strict validation, with no custom code and a
\* set without the URL's hash-derived code, create_short_url returns
\* (True, the hash-derived code of normalize_url(url), ''): normalizing the
\* normalized URL again inside generate_hash_based_code changes nothing.
C8_CodeOfNormalizedUrl ==
   \A p \in Procs :
      (/\ Returned(p)
       /\ UrlCheck[call[p].original_url][1]
       /\ ~Truthy(call[p].custom_code)
       /\ NormalizedHashCode[call[p].original_url] \notin call[p].existing_codes) =>
         call[p].result = <<TRUE, NormalizedHashCode[call[p].original_url], <<>>>>

\* such a call has returned for a URL that normalize_url rewrites, given a
\* set that holds other codes
C8_Witness ==
   \E p \in Procs :
      /\ Returned(p)
      /\ UrlCheck[call[p].original_url][1]
      /\ ~Truthy(call[p].custom_code)
      /\ call[p].url # call[p].original_url
      /\ call[p].existing_codes # {}
      /\ NormalizedHashCode[call[p].original_url] \notin call[p].existing_codes
      /\ call[p].result[1]

\* C9: generate_unique_code returns the hash-derived code of the URL, with
\* no random candidate drawn, whenever that code is not in the set: the value
\* is a function of the URL alone.
C9_HashCodeFirst ==
   \A p \in Procs :
      (Generated(p) /\ call[p].hash_code \notin call[p].existing_codes) =>
         /\ call[p].short_code = call[p].hash_code
         /\ call[p].draws = 0
         /\ call[p].random_code = None
         /\ call[p].op = "generate_unique_code" =>
               call[p].short_code = HashCodeOf[call[p].url][0]

\* a direct call has returned the hash-derived code, given a non-empty set
\* that lacks it
C9_Witness ==
   \E p \in Procs :
      /\ Generated(p) /\ call[p].op = "generate_unique_code" /\ call[p].pc = "done"
      /\ call[p].existing_codes # {}
      /\ call[p].hash_code \notin call[p].existing_codes
      /\ call[p].short_code = call[p].hash_code

\* C10: generate_hash_based_code is deterministic, and two URLs that differ
\* only by an explicit default port, or only by the letter case of the host,
\* get the same code.
C10_SameCodeUpToPortAndCase ==
   \A p \in Procs :
      (call[p].op = "generate_hash_based_code" /\ call[p].pc = "done") =>
         /\ call[p].hash_code = HashCodeOf[call[p].url][call[p].length]
         /\ \A r, s \in UrlParts :
               (/\ call[p].url = BuildUrl(r)
                /\ r.scheme = s.scheme /\ r.tail = s.tail
                /\ \/ r.host = s.host /\ {r.port, s.port} = {<<>>, DefaultPort(r.scheme)}
                   \/ r.port = s.port /\ Lower(r.host) = Lower(s.host))
               => call[p].hash_code = HashCodeOf[BuildUrl(s)][call[p].length]

\* lines 245-252: what normalize_url hands to urlparse, parsed
ParsedByNormalize(url) ==
   Let(Strip(url), LAMBDA u1 :
      urlparse(IF \/ StartsWith(u1, S_http \o SchemeSep)
                  \/ StartsWith(u1, S_https \o SchemeSep)
                  \/ StartsWith(u1, S_ftp \o SchemeSep)
                  \/ StartsWith(u1, S_ftps \o SchemeSep)
               THEN u1
               ELSE S_http \o SchemeSep \o u1))

\* C11: normalize_url is idempotent: a call on the value a call returned
\* returns that value again, whatever the first argument was (surrounding
\* blanks, no scheme, an upper-case scheme, several default-port suffixes).
C11_NormalizeIdempotent ==
   [][\A p \in Procs :
         (/\ call[p].op = "normalize_url" /\ call[p].pc = "done"
          /\ call'[p].op = "normalize_url" /\ call'[p].url = call[p].value)
         => call'[p].value = call[p].value]_vars

\* C12: when urlparse raises inside normalize_url, the call returns the
\* very string it was passed.
C12_ParseFailureReturnsInput ==
   \A p \in Procs :
      (/\ call[p].op = "normalize_url" /\ call[p].pc = "done"
       /\ Truthy(call[p].url)
       /\ ~ParsedByNormalize(call[p].url).ok)
      => call[p].value = call[p].url

\* C13: create_short_url and generate_unique_code leave the set they were
\* given as it is, and no call changes the configuration of the generator
\* (alphabet, safe alphabet, default length): it stays what the constructor
\* made it.
C13_ArgumentsAndConfigurationKept ==
   /\ [](url_shortener = URLShortener(<<>>, DefaultLength))
   /\ [][/\ url_shortener' = url_shortener
         /\ \A p \in Procs :
               (/\ call[p].op \in {"create_short_url", "generate_unique_code"}
                /\ call[p].pc \notin {"idle", "done"})
               => call'[p].existing_codes = call[p].existing_codes]_vars

\* create_short_url has returned a drawn code, given a non-empty set that
\* it still holds unchanged: the drawn code is not in it
C13_Witness ==
   \E p \in Procs :
      /\ Returned(p)
      /\ call[p].draws > 1
      /\ call[p].result = <<TRUE, call[p].random_code, <<>>>>
      /\ call[p].existing_codes # {}
      /\ call[p].random_code \notin call[p].existing_codes
      /\ url_shortener = URLShortener(<<>>, DefaultLength)

\* C14: generate_unique_code always returns: it looks at one hash-derived
\* candidate and at most max_attempts drawn ones, and returns one of its
\* candidates or None; with max_attempts = 0 and the hash-derived code in the
\* set it returns None and draws nothing.
C14_GenerationTerminates ==
   /\ [](\A p \in Procs :
           /\ call[p].draws <= call[p].max_attempts
           /\ call[p].attempt <= call[p].draws
           /\ (Generated(p) /\ call[p].pc = "done") =>
                 \/ call[p].short_code = None
                 \/ call[p].draws = 0 /\ call[p].short_code = call[p].hash_code
                 \/ call[p].draws > 0 /\ call[p].short_code = call[p].random_code
           /\ (/\ Generated(p)
               /\ call[p].max_attempts = 0
               /\ call[p].hash_code \in call[p].existing_codes) =>
                 call[p].short_code = None /\ call[p].draws = 0)
   /\ \A p \in Procs :
         (call[p].pc \in {"gen_hash", "gen_loop", "gen_return"}) ~> (call[p].pc = "done")

\* a direct call with max_attempts = 0 found the hash-derived code in the
\* set and returned None with nothing drawn
C14_Witness ==
   \E p \in Procs :
      /\ Generated(p) /\ call[p].op = "generate_unique_code" /\ call[p].pc = "done"
      /\ call[p].max_attempts = 0
      /\ call[p].hash_code \in call[p].existing_codes
      /\ call[p].short_code = None
      /\ call[p].draws = 0

\* the host of a netloc: what follows the user information and precedes
\* the port, lower-cased
HostOf(netloc) ==
   Let(Lower(netloc), LAMBDA n :
   Let(Slice(n, RFind(n, "@") + 1, Len(n)), LAMBDA hostport :
      Split(hostport, ":")[1]))

\* the checks C15 lists, in its order, each as <<fails, message>>
UrlChecks(url, strict) ==
   Let(urlparse(url), LAMBDA parsed :
   Let(HostOf(parsed.netloc), LAMBDA host :
   Let(Split(host, "."), LAMBDA host_parts :
      << <<~Truthy(url), "URL bos olamaz">>,
         <<Len(url) > 2048, "URL cok uzun (max 2048 karakter)">>,
         <<Len(url) < 10, "URL cok kisa">>,
         <<~ValidatorsUrl(url), "Gecersiz URL formati">>,
         <<~parsed.ok, "URL parse edilemedi">>,
         <<Lower(parsed.scheme) \notin ALLOWED_SCHEMES,
           "Desteklenmeyen protokol: {parsed.scheme}">>,
         <<parsed.netloc = <<>>, "Domain belirtilmemis">>,
         <<host \in BLOCKED_DOMAINS, "Yasakli domain: {domain}">>,
         <<strict /\ Len(host_parts) >= 2
              /\ host_parts[Len(host_parts)] \in SUSPICIOUS_TLDS,
           "Supheli TLD: {tld}">>,
         <<strict /\ _is_local_ip(host), "Yerel IP adresleri desteklenmiyor">> >>)))

\* the indexes of the checks that fail
Failing(checks) == {i \in 1..Len(checks) : checks[i][1]}

\* the verdict a list of checks gives when the first failure decides
FirstFailure(checks) ==
   IF Failing(checks) = {} THEN <<TRUE, "">>
   ELSE <<FALSE, checks[CHOOSE i \in Failing(checks) : \A j \in Failing(checks) : i <= j][2]>>

\* C15: is_valid_url returns the reason of the first failing check in the
\* order empty, length bounds, URL syntax, parse failure, scheme, missing
\* host, host (lower-cased, port stripped) blocked, and in strict mode
\* suspicious TLD, then local IP; it returns (True, '') when no check fails.
C15_FirstFailingUrlCheck ==
   \A p \in Procs :
      (call[p].op = "is_valid_url" /\ call[p].pc = "done") =>
         call[p].value = FirstFailure(UrlChecks(call[p].url, call[p].strict))

\* C16: is_valid_url rejects every URL shorter than 10 or longer than 2048
\* characters, and accepts the well-formed URLs of 10, 11, 2047 and 2048
\* characters; those of 9 and 2049 are rejected for their length.
C16_LengthBounds ==
   \A p \in Procs :
      (call[p].op = "is_valid_url" /\ call[p].pc = "done") =>
         /\ Len(call[p].url) \notin 10..2048 => ~call[p].value[1]
         /\ call[p].url \in LengthUrls =>
               call[p].value =
                  IF Len(call[p].url) < 10 THEN <<FALSE, "URL cok kisa">>
                  ELSE IF Len(call[p].url) > 2048
                  THEN <<FALSE, "URL cok uzun (max 2048 karakter)">>
                  ELSE <<TRUE, "">>

\* a URL of 2048 characters has been accepted
C16_Witness ==
   \E p \in Procs :
      /\ call[p].op = "is_valid_url" /\ call[p].pc = "done"
      /\ Len(call[p].url) = 2048
      /\ call[p].value = <<TRUE, "">>

\* the address of a host of four groups of digits lies in 10.0.0.0/8,
\* 172.16.0.0/12, 192.168.0.0/16 or 127.0.0.0/8
NumericLocal(h) ==
   Let(Split(h, "."), LAMBDA parts :
   Let(IntBase10(parts[1]), LAMBDA o1 :
   Let(IntBase10(parts[2]), LAMBDA o2 :
      \/ o1 = 10
      \/ o1 = 172 /\ o2 \in 16..31
      \/ o1 = 192 /\ o2 = 168
      \/ o1 = 127)))

\* C17: for a host of four groups of 1 to 3 digits, the local-IP check
\* answers by the numeric value of the groups, leading zeros or not: in
\* strict mode is_valid_url rejects the host as a local IP (or, earlier, as
\* a blocked host) when the address is in a local range, with or without a
\* user name in front of it, and does not reject on this ground a host
\* outside them or a host name that only begins like a local address.
C17_LocalIpByNumericValue ==
   \A p \in Procs :
      /\ (call[p].op = "_is_local_ip" /\ call[p].pc = "done") =>
            call[p].value = <<call[p].url \in QuadHosts /\ NumericLocal(call[p].url)>>
      /\ (call[p].op = "is_valid_url" /\ call[p].pc = "done" /\ call[p].strict) =>
            \A h \in QuadHosts \cup PrefixHosts :
               call[p].url \in {S_http \o SchemeSep \o h,
                                S_http \o SchemeSep \o UserInfo \o h} =>
                  IF h \in QuadHosts /\ NumericLocal(h)
                  THEN call[p].value \in
                          { <<FALSE, "Yerel IP adresleri desteklenmiyor">>,
                            <<FALSE, "Yasakli domain: {domain}">> }
                  ELSE call[p].value[2] # "Yerel IP adresleri desteklenmiyor"

\* the characters a custom code may be made of
CodeChars == {c \in Range(AsciiChars) : IsAlpha(c) \/ IsDigit(c)} \cup {"_", "-"}

\* the length of the longest run of one character in a string
LongestRun(s) ==
   IF s = <<>> THEN 0
   ELSE CHOOSE n \in 1..Len(s) :
           /\ \E i \in 1..(Len(s) - n + 1) : \A j \in i..(i + n - 1) : s[j] = s[i]
           /\ \A m \in (n + 1)..Len(s) :
                 ~\E i \in 1..(Len(s) - m + 1) : \A j \in i..(i + m - 1) : s[j] = s[i]

\* the checks C18 lists, in its order, each as <<fails, message>>
CodeChecks(code, min_length, max_length) ==
   << <<~Truthy(code), "Kod bos olamaz">>,
      <<Len(code) < min_length, "Kod en az {min_length} karakter olmali">>,
      <<Len(code) > max_length, "Kod en fazla {max_length} karakter olabilir">>,
      <<code = <<>> \/ \E i \in 1..Len(code) : code[i] \notin CodeChars,
        "Kod sadece harf, rakam, tire (-) ve alt cizgi (_) icerebilir">>,
      <<code # <<>> /\ IsDigit(code[1]), "Kod rakam ile baslayamaz">>,
      <<Lower(code) \in RESERVED_WORDS, "'{code}' rezerve edilmis bir kelimedir">>,
      <<LongestRun(code) >= 4, "Ust uste 4'ten fazla ayni karakter kullanilamaz">> >>

\* C18: is_valid_custom_code returns the reason of the first failing check
\* in the order empty, too short, too long, a character outside
\* [A-Za-z0-9_-], first character a digit, reserved word, run of 4 or more;
\* a code is accepted exactly when it passes all of them.
C18_FirstFailingCodeCheck ==
   \A p \in Procs :
      (call[p].op = "is_valid_custom_code" /\ call[p].pc = "done") =>
         call[p].value =
            FirstFailure(CodeChecks(call[p].custom_code, DefaultMinLength, DefaultMaxLength))

\* C19: a custom code whose lower-cased form is a reserved word is rejected
\* by is_valid_custom_code and by create_short_url, whatever the case of its
\* letters: create_short_url accepts no custom code that is a reserved word
\* up to case.
C19_ReservedWordsAnyCase ==
   \A p \in Procs :
      /\ (/\ call[p].op = "is_valid_custom_code" /\ call[p].pc = "done"
          /\ Lower(call[p].custom_code) \in RESERVED_WORDS) => ~call[p].value[1]
      /\ (Returned(p) /\ Truthy(call[p].custom_code)) =>
            /\ Lower(call[p].custom_code) \in RESERVED_WORDS => ~call[p].result[1]
            /\ call[p].result[1] => Lower(call[p].result[2]) \notin RESERVED_WORDS

\* 'ADMIN' has been rejected as a reserved word
C19_Witness ==
   \E p \in Procs :
      /\ call[p].op = "is_valid_custom_code" /\ call[p].pc = "done"
      /\ call[p].custom_code = Code_ADMIN
      /\ call[p].value = <<FALSE, "'{code}' rezerve edilmis bir kelimedir">>

\* C20: is_valid_custom_code rejects every code with a run of 4 or more
\* identical characters, and a code whose longest run is 3 or shorter is not
\* rejected for its runs: 'aaaab' is rejected and 'aaab' accepted.
C20_RunsOfFour ==
   \A p \in Procs :
      (call[p].op = "is_valid_custom_code" /\ call[p].pc = "done") =>
         /\ LongestRun(call[p].custom_code) >= 4 => ~call[p].value[1]
         /\ LongestRun(call[p].custom_code) <= 3 =>
               call[p].value[2] # "Ust uste 4'ten fazla ayni karakter kullanilamaz"
         /\ call[p].custom_code = Code_run =>
               call[p].value = <<FALSE, "Ust uste 4'ten fazla ayni karakter kullanilamaz">>
         /\ call[p].custom_code \in {Code_run3, Code_runs} => call[p].value = <<TRUE, "">>

\* a code with runs of three has been accepted
C20_Witness ==
   \E p \in Procs :
      /\ call[p].op = "is_valid_custom_code" /\ call[p].pc = "done"
      /\ LongestRun(call[p].custom_code) = 3
      /\ call[p].value = <<TRUE, "">>

\* C21: every failure of create_short_url carries a non-empty reason; a
\* failure of the URL validation carries the URL-error marker, a failure
\* caused by the custom code (its format, a reserved word, a code already in
\* use) carries the code-error marker, and no code failure carries the
\* URL-error marker.
C21_FailureReasonMarkers ==
   \A p \in Procs :
      (Returned(p) /\ ~call[p].result[1]) =>
         /\ call[p].result[3] # <<>>
         /\ call[p].result[3][1] # ""
         /\ ~UrlCheck[call[p].original_url][1] => call[p].result[3][1] = "URL Hatasi: "
         /\ (UrlCheck[call[p].original_url][1] /\ Truthy(call[p].custom_code)) =>
               /\ call[p].result[3][1] = "Kod Hatasi: "
               /\ call[p].result[3][1] # "URL Hatasi: "

\* C23: in the retry loop of generate_unique_code the candidate of attempt
\* index i (0 <= i < max_attempts) has length configured length + i \div 10;
\* the loop returns the first candidate that is not in the existing-codes
\* set and draws no candidate after it.
C23_RetryLengthsAndFirstFree ==
   [][\A p \in Procs :
         /\ (call[p].pc = "gen_loop" /\ call'[p] # call[p]) =>
               /\ call[p].attempt = call[p].draws
               /\ IF call[p].attempt < call[p].max_attempts
                  THEN /\ call'[p].draws = call[p].draws + 1
                       /\ Len(call'[p].random_code) =
                             url_shortener.length + (call[p].attempt \div 10)
                       /\ IF call'[p].random_code \notin call[p].existing_codes
                          THEN /\ call'[p].pc = "gen_return"
                               /\ call'[p].short_code = call'[p].random_code
                          ELSE /\ call'[p].pc = "gen_loop"
                               /\ call'[p].attempt = call[p].attempt + 1
                  ELSE /\ call'[p].draws = call[p].draws
                       /\ call'[p].random_code = call[p].random_code
         /\ (call[p].pc = "gen_return" /\ call'[p] # call[p]) =>
               /\ call'[p].pc = "done"
               /\ call'[p].draws = call[p].draws
               /\ call'[p].random_code = call[p].random_code
               /\ call'[p].short_code = call[p].short_code]_vars

\* the candidate of attempt index 10, one character longer than the
\* configured length, was the first not in the set and has been returned
C23_Witness ==
   \E p \in Procs :
      /\ Generated(p) /\ call[p].pc = "done"
      /\ call[p].draws = 11
      /\ call[p].attempt = 10
      /\ call[p].short_code = call[p].random_code
      /\ Len(call[p].short_code) = url_shortener.length + 1
      /\ call[p].short_code \notin call[p].existing_codes

\* the digests of the URLs the calls of the model hash, computed once
UrlDigest ==
   [u \in UrlInputs \cup {NormalizedUrl[v] : v \in UrlInputs} |-> hexdigest(normalize_url(u))]

\* the value of a hexadecimal digit
HexValue(d) == (CHOOSE i \in 1..16 : HexDigits[i] = d) - 1

\* the value of the k-th group of two hexadecimal digits of a digest
HexGroup(hash_hex, k) == 16 * HexValue(hash_hex[2 * k - 1]) + HexValue(hash_hex[2 * k])

\* a code made of characters of the safe alphabet only
FromSafeAlphabet(code) ==
   \A k \in 1..Len(code) :
      code[k] \in Range(url_shortener.safe_alphabet) /\ code[k] \notin AmbiguousChars

\* C24: every character of every generated code, hash-derived or random
\* and of any length, is a member of the filtered alphabet, which holds none
\* of 0, O, 1, l, I; character k of a hash-derived code is the character of
\* the filtered alphabet at index (value of the k-th group of two hex digits
\* of the digest) mod (size of the filtered alphabet).
C24_CodesFromFilteredAlphabet ==
   /\ Range(url_shortener.safe_alphabet) = Range(url_shortener.alphabet) \ AmbiguousChars
   /\ Len(url_shortener.safe_alphabet) = Cardinality(Range(url_shortener.safe_alphabet))
   /\ \A p \in Procs :
         /\ call[p].hash_code # None =>
               /\ FromSafeAlphabet(call[p].hash_code)
               /\ Len(call[p].hash_code) =
                     IF call[p].length = 0 THEN url_shortener.length ELSE call[p].length
               /\ \A k \in 1..Len(call[p].hash_code) :
                     call[p].hash_code[k] =
                        url_shortener.safe_alphabet[
                           (HexGroup(UrlDigest[call[p].url], k)
                              % Len(url_shortener.safe_alphabet)) + 1]
         /\ call[p].random_code # None => FromSafeAlphabet(call[p].random_code)
         /\ (Generated(p) /\ call[p].short_code # None) =>
               FromSafeAlphabet(call[p].short_code)

\* a call computed the hash-derived code of its URL, found it in the set,
\* and returned a random code of 7 characters
C24_Witness ==
   \E p \in Procs :
      /\ Generated(p) /\ call[p].pc = "done"
      /\ Len(call[p].hash_code) = url_shortener.length
      /\ call[p].hash_code \in call[p].existing_codes
      /\ call[p].short_code = call[p].random_code
      /\ Len(call[p].short_code) = 7

\* C27: create_short_url treats the custom code '' as it treats None: with
\* a valid URL it goes to automatic generation and returns what
\* generate_unique_code returns, never the error of an empty code; and an
\* existing-codes argument that is None or empty is treated as the empty set.
C27_EmptyArgumentsAsAbsent ==
   \A p \in Procs :
      call[p].op = "create_short_url" =>
         /\ (call[p].custom_code \in {None, <<>>} /\ UrlCheck[call[p].original_url][1]) =>
               /\ call[p].url = NormalizedUrl[call[p].original_url]
               /\ call[p].max_attempts = DefaultMaxAttempts
               /\ call[p].pc = "done" =>
                     /\ call[p].hash_code # None
                     /\ call[p].result =
                           IF call[p].short_code = None
                           THEN <<FALSE, <<>>,
                                  <<"Benzersiz kod uretilemedi, lutfen tekrar deneyin">>>>
                           ELSE <<TRUE, call[p].short_code, <<>>>>
         /\ call[p].existing_arg \in {NoneSet, {}} =>
               /\ call[p].existing_codes = {}
               /\ (call[p].pc = "done" /\ UrlCheck[call[p].original_url][1]) =>
                     call[p].result =
                        IF ~Truthy(call[p].custom_code)
                        THEN <<TRUE, NormalizedHashCode[call[p].original_url], <<>>>>
                        ELSE IF ~CodeCheck[call[p].custom_code][1]
                        THEN <<FALSE, <<>>, <<"Kod Hatasi: ", CodeCheck[call[p].custom_code][2]>>>>
                        ELSE <<TRUE, call[p].custom_code, <<>>>>

\* create_short_url was given '' as the custom code and None as the
\* existing codes, and returned the hash-derived code of the URL
C27_Witness ==
   \E p \in Procs :
      /\ Returned(p)
      /\ call[p].custom_code = <<>>
      /\ call[p].existing_arg = NoneSet
      /\ call[p].result = <<TRUE, call[p].hash_code, <<>>>>

\* a redirect request that has answered after its update was committed
Counted(p) ==
   /\ request[p].route = "redirect_url"
   /\ request[p].pc = "responded"
   /\ request[p].success

\* the smallest member of a non-empty set of numbers
Min(S) == CHOOSE n \in S : \A m \in S : n <= m

\* C22: increment_click_count is thread-safe: when N redirect requests for
\* one short code run concurrently, in any interleaving of their read,
\* add-one and commit steps, the stored click_count ends N higher than it
\* started: no increment is lost.
C22_NoIncrementLost ==
   \A S \in SUBSET Procs :
      \A i \in 1..Len(urls) :
         (S # {} /\ \A p \in S : Counted(p) /\ request[p].url_id = i) =>
            urls[i].click_count >=
               Min({request[p].click_count - 1 : p \in S}) + Cardinality(S)

C26_ShortenEffect ==
   [][\A p \in Procs :
         /\ (/\ request[p].pc \in {"idle", "responded"}
             /\ request'[p] # request[p]
             /\ request'[p].route \in {"index", "api_shorten"}) => urls' = urls
         /\ (request[p].pc = "in_call" /\ request'[p] # request[p]) =>
               /\ request'[p].pc = "responded"
               /\ IF call[p].result[1] /\ request'[p].status \in {302, 201}
                  THEN /\ Len(urls') = Len(urls) + 1
                       /\ \A j \in 1..Len(urls) : urls'[j] = urls[j]
                       /\ urls'[Len(urls')].short_code = call[p].result[2]
                       /\ urls'[Len(urls')].original_url = request[p].original_url
                       /\ urls'[Len(urls')].click_count = 0
                  ELSE urls' = urls]_vars

\* a request whose create_short_url succeeded has answered that its commit
\* failed: the code was stored by another request in between
C26_Witness ==
   \E p \in Procs :
      /\ request[p].route \in {"index", "api_shorten"}
      /\ request[p].pc = "responded"
      /\ request[p].success
      /\ request[p].status \in {200, 500}
      /\ request[p].short_code \in StoredCodes(urls)

====
